---- MODULE Spec2Model ----
(***************************************************************************)
(* Model of the ingestion / merge pipeline of app/ingest.py.               *)
(*                                                                         *)
(* A DataFrame is a record [isNone, cols, rows]: cols is the ordered list  *)
(* of column names, rows the ordered list of rows, each row a function     *)
(* from the column names to cell values.  isNone marks Python's None.      *)
(* Cell values are strings; NA is the missing value (None / NaN / pd.NA).  *)
(***************************************************************************)
EXTENDS Integers, Sequences, FiniteSets, TLC

VARIABLES
    merge_pc,        \* position of the caller of safe_upsert_merge
    existing_df,     \* argument existing_df of safe_upsert_merge
    incoming_df,     \* argument incoming_df of safe_upsert_merge
    merge_out,       \* what the call produced: returned frame and local stats
    norm_pc,         \* position of the caller of normalize_columns
    raw_headers,     \* df.columns handed to normalize_columns
    norm_once,       \* the column names of normalize_columns(df)
    norm_twice,      \* the column names of normalize_columns(normalize_columns(df))
    working_file,    \* data/cleaned_master.csv (the Working Dataset)
    master_file,     \* data/master_database.csv (the Master Archive)
    backups,         \* data/backups: the snapshot files, by timestamp
    now,             \* the wall clock, in seconds
    runs,            \* ingest_file invocations so far
    run_record,      \* the stats dict the last ingest_file returned
    run_merge_stats, \* the stats dict of its merge into the Working Dataset
    log_count,       \* log_ingestion invocations so far
    faulty_runs,     \* invocations so far in which the file system failed
    dir_pc,          \* position of ingest_directory
    dir_exists,      \* os.path.isdir(dir_path)
    all_files,       \* what glob.glob returns for the search path
    supported_files, \* the list ingest_directory iterates over
    dir_i,           \* index in supported_files of the next file to process
    aggregate,       \* the aggregate dict of ingest_directory
    calls,           \* the ingest_file calls ingest_directory made, with their outcome
    enc_pc,          \* position of read_with_encoding_cascade
    enc_file,        \* the file it is called on: whether it is there, and its bytes
    enc_i,           \* index in ENCODING_CASCADE of the next attempt
    enc_errors,      \* the attempts made so far, with what each of them did
    enc_out,         \* what the call returned or raised
    hdr_pc,          \* position of the caller of _detect_header_row
    hdr_df,          \* argument df of _detect_header_row: the rows of the raw table
    hdr_max,         \* argument max_rows_to_check
    hdr_out,         \* the index it returned
    evo_pc,          \* position of the caller of evolve_schema
    evo_master,      \* argument master_df of evolve_schema
    evo_incoming,    \* argument incoming_df of evolve_schema
    evo_out,         \* the pair evolve_schema returned
    incoming_dir,    \* the files of the incoming directory, by name
    upload_arg,      \* the arguments of the last save_upload
    upload_ret,      \* what the last save_upload returned
    uploads,         \* how many uploads were saved
    trk_pc,          \* position of run_ingestion
    run_files,       \* the run metadata files of RUNS_DIR, by run id
    trk_incoming,    \* names of the files in /data/incoming
    trk_filename,    \* local filename of run_ingestion
    trk_outcome,     \* what the call of ingest_file did
    trk_ret,         \* the dict run_ingestion returned
    race_pc,         \* position of each of two concurrent invocations of ingest_file
    race_file,       \* the input file of each invocation
    race_mf,         \* master_database.csv as each invocation read it
    race_wf,         \* cleaned_master.csv as each invocation read it
    race_res,        \* what each invocation computed in memory
    race_writer,     \* which invocation wrote each persisted file last
    race_overlap,    \* both invocations had read before either wrote
    race_interleaved \* an invocation started while the other was under way

merge_vars == <<merge_pc, existing_df, incoming_df, merge_out>>
norm_vars == <<norm_pc, raw_headers, norm_once, norm_twice>>
file_vars == <<working_file, master_file, backups, now, runs, run_record, run_merge_stats,
               log_count, faulty_runs>>
dir_vars == <<dir_pc, dir_exists, all_files, supported_files, dir_i, aggregate, calls>>
enc_vars == <<enc_pc, enc_file, enc_i, enc_errors, enc_out>>
hdr_vars == <<hdr_pc, hdr_df, hdr_max, hdr_out>>
evo_vars == <<evo_pc, evo_master, evo_incoming, evo_out>>
upload_vars == <<incoming_dir, upload_arg, upload_ret, uploads>>
track_vars == <<trk_pc, run_files, trk_incoming, trk_filename, trk_outcome, trk_ret>>
race_vars == <<race_pc, race_file, race_mf, race_wf, race_res, race_writer, race_overlap, race_interleaved>>
vars == <<merge_vars, norm_vars, file_vars, dir_vars, enc_vars, hdr_vars, evo_vars, upload_vars, track_vars, race_vars>>

-----------------------------------------------------------------------------
(* Bounds of the model *)

MaxExistingRows == 2
MaxIncomingRows == 2
MaxCols == 3          \* columns of a header handed to normalize_columns
MaxHeaderLen == 2     \* characters of a generated raw header
MaxRuns == 3          \* ingest_file invocations in one behaviour
MaxClock == 1         \* seconds the wall clock advances in one behaviour
MaxFaultyRuns == 1    \* invocations in one behaviour in which the file system fails
MaxDirFiles == 4      \* entries glob.glob finds in the directory
MaxBytes == 3         \* byte groups of a text file read by the encoding cascade
MaxTableRows == 2     \* rows of a raw table handed to _detect_header_row
MaxMasterRows == 2    \* rows of a master handed to evolve_schema
MaxUploads == 3       \* calls of save_upload
MaxTrackedRuns == 2   \* calls of run_ingestion

-----------------------------------------------------------------------------
(* Cell values *)

\* Column names are strings written as sequences of characters, so that the
\* Column Normalizer can be computed on them.
PRIMARY_KEY == <<"c", "o", "m", "p", "a", "n", "y", "_", "n", "a", "m", "e">>
Score == <<"s", "c", "o", "r", "e">>
Note == <<"n", "o", "t", "e">>

NA == "<NA>"
Blank == " "

\* pd.isna(v)
IsNA(v) == v = NA

\* str(v): a missing value prints as "nan"
Str(v) == IF v = NA THEN "nan" ELSE v

\* s.strip() on the strings of the model: only the blank string loses characters
Strip(s) == IF s = Blank THEN "" ELSE s

\* pd.isna(v) or str(v).strip() == ""
IsEmptyVal(v) == IsNA(v) \/ Strip(Str(v)) = ""

-----------------------------------------------------------------------------
(* Column Normalizer: strings are sequences of characters *)

\* a header that is None or a float NaN
NAHeader == <<"<NA>">>

\* str(pd.NA), the header the delimited-text loader leaves for a blank cell
PdNAHeader == <<"<", "N", "A", ">">>

Digits == <<"0", "1", "2", "3", "4", "5", "6", "7", "8", "9">>
LowerLetters == <<"a", "b", "c", "d", "e", "f", "g", "h", "i", "j", "k", "l", "m",
                  "n", "o", "p", "q", "r", "s", "t", "u", "v", "w", "x", "y", "z">>
UpperLetters == <<"A", "B", "C", "D", "E", "F", "G", "H", "I", "J", "K", "L", "M",
                  "N", "O", "P", "Q", "R", "S", "T", "U", "V", "W", "X", "Y", "Z">>

SeqRange(s) == {s[i] : i \in DOMAIN s}

Whitespace == {" "}

\* c.isdigit()
IsDigit(c) == c \in SeqRange(Digits)

\* c matches \w
IsWordChar(c) ==
    c \in SeqRange(Digits) \cup SeqRange(LowerLetters) \cup SeqRange(UpperLetters) \cup {"_"}

\* c.lower()
LowerChar(c) ==
    IF c \in SeqRange(UpperLetters)
    THEN LowerLetters[CHOOSE i \in DOMAIN UpperLetters : UpperLetters[i] = c]
    ELSE c

\* s.lower()
LowerStr(s) == [i \in DOMAIN s |-> LowerChar(s[i])]

\* s.lstrip(chars), s.rstrip(chars), s.strip(chars)
RECURSIVE LStripChars(_, _)
LStripChars(s, chars) ==
    IF s # <<>> /\ Head(s) \in chars THEN LStripChars(Tail(s), chars) ELSE s

RECURSIVE RStripChars(_, _)
RStripChars(s, chars) ==
    IF s # <<>> /\ s[Len(s)] \in chars THEN RStripChars(SubSeq(s, 1, Len(s) - 1), chars) ELSE s

StripChars(s, chars) == RStripChars(LStripChars(s, chars), chars)

\* s.replace(c, by) for a single character c and a string by
RECURSIVE ReplaceChar(_, _, _)
ReplaceChar(s, c, by) ==
    IF s = <<>> THEN <<>>
    ELSE (IF Head(s) = c THEN by ELSE <<Head(s)>>) \o ReplaceChar(Tail(s), c, by)

\* re.sub(r"[^\w]", "", s)
RECURSIVE RemoveNonWord(_)
RemoveNonWord(s) ==
    IF s = <<>> THEN <<>>
    ELSE (IF IsWordChar(Head(s)) THEN <<Head(s)>> ELSE <<>>) \o RemoveNonWord(Tail(s))

\* re.sub(r"_+", "_", s)
RECURSIVE CollapseUnderscores(_)
CollapseUnderscores(s) ==
    IF Len(s) < 2 THEN s
    ELSE IF s[1] = "_" /\ s[2] = "_" THEN CollapseUnderscores(Tail(s))
         ELSE <<s[1]>> \o CollapseUnderscores(Tail(s))

\* str(n) for a natural number n
RECURSIVE IntStr(_)
IntStr(n) == IF n < 10 THEN <<Digits[n + 1]>> ELSE IntStr(n \div 10) \o <<Digits[(n % 10) + 1]>>

\* f"column_{i + 1}" for the 0-based position i
PositionalName(i) == <<"c", "o", "l", "u", "m", "n", "_">> \o IntStr(i + 1)

\* lines 436-453: the cleaning chain on a header that is not empty
CleanChain(col) ==
    LET s1 == LowerStr(StripChars(col, Whitespace))
        s2 == ReplaceChar(ReplaceChar(s1, " ", <<"_">>), "-", <<"_">>)
        s3 == ReplaceChar(ReplaceChar(ReplaceChar(ReplaceChar(ReplaceChar(
                  s2, ":", <<>>), "(", <<>>), ")", <<>>), "[", <<>>), "]", <<>>)
    IN StripChars(CollapseUnderscores(RemoveNonWord(s3)), {"_"})

\* lines 430-463: the cleaned name of the header col at the 0-based position i
CleanName(col, i) ==
    LET n1 == IF col = NAHeader \/ StripChars(col, Whitespace) = <<>>
              THEN PositionalName(i)
              ELSE CleanChain(col)
        n2 == IF n1 = <<>> THEN PositionalName(i) ELSE n1
    IN IF IsDigit(n2[1]) THEN <<"c", "o", "l", "_">> \o n2 ELSE n2

\* lines 469-477: the loop that numbers the later occurrences of a name;
\* seen maps the names met so far to their counters
RECURSIVE Dedupe(_, _, _)
Dedupe(cleaned, seen, deduped) ==
    IF cleaned = <<>> THEN deduped
    ELSE LET name == Head(cleaned)
         IN IF name \in DOMAIN seen
            THEN Dedupe(Tail(cleaned), [seen EXCEPT ![name] = @ + 1],
                        Append(deduped, name \o <<"_">> \o IntStr(seen[name] + 1)))
            ELSE Dedupe(Tail(cleaned), seen @@ (name :> 0), Append(deduped, name))

\* lines 428-477: the column names normalize_columns gives a non-empty frame
\* whose columns are headers
NormalizedNames(headers) ==
    Dedupe([i \in DOMAIN headers |-> CleanName(headers[i], i - 1)], <<>>, <<>>)

-----------------------------------------------------------------------------
(* DataFrames *)

Range(s) == SeqRange(s)

NoneDF == [isNone |-> TRUE, cols |-> <<>>, rows |-> <<>>]

MkDF(cols, rows) == [isNone |-> FALSE, cols |-> cols, rows |-> rows]

OnlyNone(df) == df.isNone

\* pd.DataFrame()
EmptyDF == MkDF(<<>>, <<>>)

\* df.empty: some axis has length 0
DfEmpty(df) == Len(df.cols) = 0 \/ Len(df.rows) = 0

\* "df is None or df.empty"
NoneOrEmpty(df) == df.isNone \/ DfEmpty(df)

ColSet(df) == Range(df.cols)

\* the subsequence of s whose elements satisfy membership in keep
RECURSIVE SelectIn(_, _)
SelectIn(s, keep) ==
    IF s = <<>> THEN <<>>
    ELSE IF Head(s) \in keep THEN <<Head(s)>> \o SelectIn(Tail(s), keep)
         ELSE SelectIn(Tail(s), keep)

\* the rows of a sequence that satisfy a row set
RECURSIVE SelectRows(_, _)
SelectRows(rows, keep) ==
    IF rows = <<>> THEN <<>>
    ELSE IF Head(rows) \in keep THEN <<Head(rows)>> \o SelectRows(Tail(rows), keep)
         ELSE SelectRows(Tail(rows), keep)

\* a re-indexing that puts a blank string where the row has no column
ReindexWithBlank(row, colset) == [c \in colset |-> IF c \in DOMAIN row THEN row[c] ELSE Blank]

\* a row re-indexed on a column set: columns it lacks are missing values
Reindex(row, colset) == [c \in colset |-> IF c \in DOMAIN row THEN row[c] ELSE NA]

\* the frame as it is when the dropna of line 534 is left out
DropNothing(df) == MkDF(df.cols, df.rows)

\* df.dropna(how="all").reset_index(drop=True)
DropNaAll(df) ==
    MkDF(df.cols, SelectRows(df.rows, {r \in Range(df.rows) : \E c \in DOMAIN r : ~IsNA(r[c])}))

\* concat that joins the columns inner: only the shared columns survive
ConcatInner(a, b) ==
    LET cols == SelectIn(a.cols, ColSet(b))
        all  == Range(cols)
    IN MkDF(cols, [i \in 1..(Len(a.rows) + Len(b.rows)) |->
                      IF i <= Len(a.rows) THEN Reindex(a.rows[i], all)
                      ELSE Reindex(b.rows[i - Len(a.rows)], all)])

\* pd.concat([a, b], ignore_index=True): outer join of the columns, a's first
Concat(a, b) ==
    LET cols == a.cols \o SelectIn(b.cols, ColSet(b) \ ColSet(a))
        all  == Range(cols)
    IN MkDF(cols, [i \in 1..(Len(a.rows) + Len(b.rows)) |->
                      IF i <= Len(a.rows) THEN Reindex(a.rows[i], all)
                      ELSE Reindex(b.rows[i - Len(a.rows)], all)])

-----------------------------------------------------------------------------
(* Upsert Merge Engine *)

NoStats == [rows_added |-> 0, rows_updated |-> 0, rows_unchanged |-> 0]

\* line 555: set(merged[primary_key].dropna().astype(str))
ExistingKeys(rows, pk) == {Str(r[pk]) : r \in {q \in Range(rows) : ~IsNA(q[pk])}}

\* Fills without the test of the existing cell: a populated cell is overwritten
FillsOverwriting(r, c, incoming_row, pk, key_str) ==
    /\ Str(r[pk]) = key_str
    /\ c \in DOMAIN incoming_row
    /\ c # pk
    /\ c \in DOMAIN r
    /\ ~IsEmptyVal(incoming_row[c])

\* Fills that takes only a missing value for empty: a blank cell is not filled
FillsOnlyMissing(r, c, incoming_row, pk, key_str) ==
    /\ Str(r[pk]) = key_str
    /\ c \in DOMAIN incoming_row
    /\ c # pk
    /\ c \in DOMAIN r
    /\ ~IsEmptyVal(incoming_row[c])
    /\ IsNA(r[c])

\* lines 571-591: the cell (row r of merged, column c) is filled from incoming_row
Fills(r, c, incoming_row, pk, key_str) ==
    /\ Str(r[pk]) = key_str
    /\ c \in DOMAIN incoming_row
    /\ c # pk
    /\ c \in DOMAIN r
    /\ ~IsEmptyVal(incoming_row[c])
    /\ IsEmptyVal(r[c])

\* FillMatched that stops at the first existing row of the key
FillFirstMatch(rows, incoming_row, pk, key_str) ==
    [j \in DOMAIN rows |->
        [c \in DOMAIN rows[j] |->
            IF /\ Fills(rows[j], c, incoming_row, pk, key_str)
               /\ \A k \in 1..(j - 1) : Str(rows[k][pk]) # key_str
            THEN incoming_row[c] ELSE rows[j][c]]]

\* lines 574-591 for one matched incoming row: the rows of merged afterwards
FillMatched(rows, incoming_row, pk, key_str) ==
    [j \in DOMAIN rows |->
        [c \in DOMAIN rows[j] |->
            IF Fills(rows[j], c, incoming_row, pk, key_str)
            THEN incoming_row[c] ELSE rows[j][c]]]

\* lines 559-599: the loop over incoming_df.iterrows(), from row i on
RECURSIVE MergeLoop(_, _, _, _, _)
MergeLoop(st, inc_rows, pk, existing_keys, i) ==
    IF i > Len(inc_rows) THEN st
    ELSE LET incoming_row == inc_rows[i]
             key_val == incoming_row[pk]
             key_str == Str(key_val)
         IN IF IsEmptyVal(key_val)
            THEN MergeLoop([st EXCEPT !.new_rows = Append(@, incoming_row)],
                           inc_rows, pk, existing_keys, i + 1)
            ELSE IF key_str \in existing_keys
            THEN LET filled == FillMatched(st.rows, incoming_row, pk, key_str)
                     row_updated == \E j \in DOMAIN st.rows : \E c \in DOMAIN st.rows[j] :
                                        Fills(st.rows[j], c, incoming_row, pk, key_str)
                 IN MergeLoop([st EXCEPT !.rows = filled,
                                         !.rows_updated = IF row_updated THEN @ + 1 ELSE @,
                                         !.rows_unchanged = IF row_updated THEN @ ELSE @ + 1],
                              inc_rows, pk, existing_keys, i + 1)
            ELSE MergeLoop([st EXCEPT !.new_rows = Append(@, incoming_row)],
                           inc_rows, pk, existing_keys, i + 1)

\* safe_upsert_merge with its local stats dict: [df |-> the frame it returns,
\* stats |-> the stats dict when the function ends]
UpsertRun(existing, incoming, pk) ==
    IF NoneOrEmpty(existing)
    THEN IF NoneOrEmpty(incoming)
         THEN [df |-> EmptyDF, stats |-> NoStats]
         ELSE [df |-> incoming,
               stats |-> [NoStats EXCEPT !.rows_added = Len(incoming.rows)]]
    ELSE IF NoneOrEmpty(incoming)
    THEN [df |-> existing, stats |-> NoStats]
    ELSE LET inc == DropNaAll(incoming)
         IN IF pk \notin ColSet(existing) \/ pk \notin ColSet(inc)
            THEN [df |-> Concat(existing, inc),
                  stats |-> [NoStats EXCEPT !.rows_added = Len(inc.rows)]]
            ELSE LET st == MergeLoop([rows |-> existing.rows, new_rows |-> <<>>,
                                      rows_updated |-> 0, rows_unchanged |-> 0],
                                     inc.rows, pk, ExistingKeys(existing.rows, pk), 1)
                     merged == MkDF(existing.cols, st.rows)
                 IN [df |-> IF st.new_rows # <<>>
                            THEN Concat(merged, MkDF(inc.cols, st.new_rows))
                            ELSE merged,
                     stats |-> [rows_added |-> Len(st.new_rows),
                                rows_updated |-> st.rows_updated,
                                rows_unchanged |-> st.rows_unchanged]]

\* the value safe_upsert_merge returns to its caller: the merged frame alone
safe_upsert_merge(existing, incoming, pk) == UpsertRun(existing, incoming, pk).df

-----------------------------------------------------------------------------
(* Schema Evolution Engine *)

\* the order of Python's string comparison on the characters of the model
CodeOrder == Digits \o UpperLetters \o <<"_">> \o LowerLetters

CharCode(c) == CHOOSE i \in DOMAIN CodeOrder : CodeOrder[i] = c

\* a < b for two strings
RECURSIVE StrLess(_, _)
StrLess(a, b) ==
    IF a = <<>> THEN b # <<>>
    ELSE IF b = <<>> THEN FALSE
    ELSE IF Head(a) = Head(b) THEN StrLess(Tail(a), Tail(b))
    ELSE CharCode(Head(a)) < CharCode(Head(b))

\* sorted(S) for a set of strings
RECURSIVE SortedSeq(_)
SortedSeq(S) ==
    IF S = {} THEN <<>>
    ELSE LET m == CHOOSE x \in S : \A y \in S \ {x} : StrLess(x, y)
         IN <<m>> \o SortedSeq(S \ {m})

KeepColumns(df, new_cols) == df

\* df[col] = pd.NA for each col of new_cols, in order
AddColumns(df, new_cols) ==
    MkDF(df.cols \o new_cols, [i \in DOMAIN df.rows |-> Reindex(df.rows[i], Range(df.cols \o new_cols))])

\* evolve_schema: [df |-> the updated master, new_cols |-> the added columns]
evolve_schema(master_df, incoming) ==
    IF NoneOrEmpty(master_df)
    THEN IF NoneOrEmpty(incoming)
         THEN [df |-> EmptyDF, new_cols |-> <<>>]
         ELSE [df |-> IF master_df.isNone THEN EmptyDF ELSE master_df,
               new_cols |-> incoming.cols]
    ELSE IF NoneOrEmpty(incoming)
    THEN [df |-> master_df, new_cols |-> <<>>]
    ELSE LET new_cols == SortedSeq(ColSet(incoming) \ ColSet(master_df))
         IN IF new_cols = <<>>
            THEN [df |-> master_df, new_cols |-> <<>>]
            ELSE [df |-> AddColumns(master_df, new_cols), new_cols |-> new_cols]

-----------------------------------------------------------------------------
(* Persisted files *)

\* a path that does not exist
Absent == [exists |-> FALSE, cols |-> <<>>, rows |-> <<>>]

\* the strings pd.read_csv takes for a missing value (its default na_values)
NaStrings == {"", "n/a"}

\* the text to_csv writes for a cell: a missing value is written empty
CsvText(v) == IF IsNA(v) THEN "" ELSE v

\* the value read_csv gives for the text of a cell
CsvValue(t) == IF t \in NaStrings THEN NA ELSE t

\* df.to_csv(path, index=False, encoding="utf-8"): the file it leaves
WriteCsv(df) ==
    [exists |-> TRUE, cols |-> df.cols,
     rows |-> [i \in DOMAIN df.rows |-> [c \in DOMAIN df.rows[i] |-> CsvText(df.rows[i][c])]]]

\* pd.read_csv(path, encoding="utf-8") of a file that exists
ReadCsv(file) ==
    MkDF(file.cols,
         [i \in DOMAIN file.rows |-> [c \in DOMAIN file.rows[i] |-> CsvValue(file.rows[i][c])]])

\* create_backup: the backups directory after copying file under the timestamp
\* of the second ts (shutil.copy2 replaces a file of the same name)
create_backup(file, dir, ts) ==
    IF ~file.exists THEN dir
    ELSE {b \in dir : b.ts # ts} \cup {[ts |-> ts, file |-> file]}

-----------------------------------------------------------------------------
(* File Orchestrator *)

SUPPORTED_EXTENSIONS == {".xlsx", ".xls", ".csv", ".tsv"}

\* detect_format: the format string, "None" for an unsupported or missing file
detect_format(f) ==
    IF f.ext \notin SUPPORTED_EXTENSIONS THEN "None"
    ELSE IF ~f.present THEN "None"
    ELSE IF f.ext = ".xlsx" THEN "xlsx"
    ELSE IF f.ext = ".xls" THEN "xls"
    ELSE IF f.ext = ".tsv" THEN "tsv"
    ELSE IF f.tab_delimited THEN "tsv" ELSE "csv"

\* the frame whose columns are names and whose rows are the positional rows
FrameOf(names, prows) ==
    MkDF(names,
         [i \in DOMAIN prows |->
             [c \in Range(names) |-> prows[i][CHOOSE k \in DOMAIN names : names[k] = c]]])

\* what a loader returns: the header values and the positional rows, or None
Table(header, rows) == [isNone |-> FALSE, header |-> header, rows |-> rows]
NoTable == [isNone |-> TRUE, header |-> <<>>, rows |-> <<>>]

\* normalize_columns on a loaded table [isNone, header, rows]
normalize_columns(tbl) ==
    IF tbl.isNone \/ Len(tbl.header) = 0 \/ Len(tbl.rows) = 0 THEN tbl
    ELSE [tbl EXCEPT !.header = NormalizedNames(tbl.header)]

\* lines 708-721: the stats dict at the start of ingest_file
InitialStats(f) ==
    [source |-> f.name, format |-> "None", encoding |-> "None", rows_loaded |-> 0,
     rows_added |-> 0, rows_updated |-> 0, rows_unchanged |-> 0, columns_added |-> <<>>,
     total_rows |-> 0, total_columns |-> 0, status |-> "failed", error |-> "None"]

\* an early return that leaves the error field as it was
FailedRunWithoutError(stats, msg, wf, mf, bk) ==
    [working |-> wf, master |-> mf, backups |-> bk,
     stats |-> stats, logged |-> 1, merge_stats |-> NoStats]

\* an early return: the error is set, log_ingestion is called, the files are as given
FailedRun(stats, msg, wf, mf, bk) ==
    [working |-> wf, master |-> mf, backups |-> bk,
     stats |-> [stats EXCEPT !.error = msg], logged |-> 1, merge_stats |-> NoStats]

Min2(a, b) == IF a <= b THEN a ELSE b
Max2(a, b) == IF a >= b THEN a ELSE b

\* lines 797-907: steps 5 to 10 of ingest_file on the normalized frame df
PersistSteps(stats0, df, flt, wf, mf, bk, ts) ==
    LET \* step 5
        master_read == IF mf.exists /\ ~flt.read_master THEN ReadCsv(mf) ELSE NoneDF
        \* step 6
        evolved == IF ~NoneOrEmpty(master_read) THEN evolve_schema(master_read, df)
                   ELSE [df |-> master_read, new_cols |-> df.cols]
        master_df == evolved.df
        \* step 7
        bk1 == IF wf.exists /\ ~flt.backup THEN create_backup(wf, bk, ts) ELSE bk
        \* step 8
        existing_cleaned == IF wf.exists /\ ~flt.read_cleaned THEN ReadCsv(wf) ELSE NoneDF
        merge_run == UpsertRun(existing_cleaned, df, PRIMARY_KEY)
        merged_df == safe_upsert_merge(existing_cleaned, df, PRIMARY_KEY)
        stats1 == [stats0 EXCEPT
                     !.columns_added = evolved.new_cols,
                     !.rows_added = IF ~NoneOrEmpty(existing_cleaned)
                                    THEN Max2(0, Len(merged_df.rows) - Len(existing_cleaned.rows))
                                    ELSE Len(merged_df.rows),
                     !.rows_updated = IF ~NoneOrEmpty(existing_cleaned)
                                      THEN Min2(Len(existing_cleaned.rows), Len(df.rows))
                                      ELSE 0,
                     !.total_rows = Len(merged_df.rows),
                     !.total_columns = Len(merged_df.cols)]
        \* step 9
        master_merged == safe_upsert_merge(master_df, df, PRIMARY_KEY)
        master_out == IF ~NoneOrEmpty(master_df)
                      THEN AddColumns(master_merged,
                                      SelectIn(merged_df.cols,
                                               ColSet(merged_df) \ ColSet(master_merged)))
                      ELSE merged_df
    IN IF flt.write_master
       THEN [FailedRun(stats1, "Failed to save master_database.csv", wf, mf, bk1)
                EXCEPT !.merge_stats = merge_run.stats]
       ELSE IF flt.write_cleaned
       THEN [FailedRun(stats1, "Failed to save cleaned_master.csv", wf, WriteCsv(master_out), bk1)
                EXCEPT !.merge_stats = merge_run.stats]
       ELSE [working |-> WriteCsv(merged_df), master |-> WriteCsv(master_out), backups |-> bk1,
             stats |-> [stats1 EXCEPT !.status = "success"], logged |-> 1,
             merge_stats |-> merge_run.stats]

\* ingest_file(f) under the faults flt, with the files wf (Working Dataset) and
\* mf (Master Archive), the backups bk and the clock at ts
ingest_file(f, flt, wf, mf, bk, ts) ==
    LET stats0 == InitialStats(f)
        fmt == detect_format(f)
        stats2 == [stats0 EXCEPT !.format = fmt]
        stats3 == [stats2 EXCEPT !.encoding = IF fmt \in {"xlsx", "xls"} THEN "binary"
                                              ELSE f.encoding]
    IN IF ~f.present THEN FailedRun(stats0, "File not found", wf, mf, bk)
       ELSE IF fmt = "None" THEN FailedRun(stats0, "Unsupported or undetectable format", wf, mf, bk)
       ELSE IF f.load = "raises" THEN FailedRun(stats2, "Load failed", wf, mf, bk)
       ELSE IF f.load = "none" \/ Len(f.table.header) = 0 \/ Len(f.table.rows) = 0
       THEN FailedRun(stats3, "No data loaded", wf, mf, bk)
       ELSE LET tbl == normalize_columns(f.table)
                df == FrameOf(tbl.header, tbl.rows)
            IN PersistSteps([stats3 EXCEPT !.rows_loaded = Len(df.rows)],
                            df, flt, wf, mf, bk, ts)

-----------------------------------------------------------------------------
(* Inputs of the merge *)

\* a row over company_name and one more column
KeyRow(k, col, v) == (PRIMARY_KEY :> k) @@ (col :> v)

\* a row over one column
OneRow(col, v) == (col :> v)

\* rows of the existing dataset: a key that incoming rows match ("A") beside a
\* missing, a blank and a populated cell; rows whose key is missing or blank
ExistingRowPool(cols) ==
    IF cols = <<PRIMARY_KEY, Score>>
    THEN {KeyRow("A", Score, NA), KeyRow("A", Score, Blank), KeyRow("A", Score, "x"),
          KeyRow(NA, Score, "x"), KeyRow(Blank, Score, NA), KeyRow(NA, Score, NA)}
    ELSE {OneRow(Score, NA), OneRow(Score, "x")}

\* rows of the incoming dataset: matched ("A") and new ("B") keys, missing and
\* blank keys, missing, blank and populated cells, an entirely missing row
IncomingRowPool(cols) ==
    IF cols = <<Score>>
    THEN {OneRow(Score, NA), OneRow(Score, "y")}
    ELSE LET col == cols[2]
         IN {KeyRow("A", col, "x"), KeyRow("A", col, "y"), KeyRow("A", col, NA),
             KeyRow("A", col, Blank), KeyRow("B", col, "y"), KeyRow("B", col, NA),
             KeyRow(NA, col, "y"), KeyRow(Blank, col, "x"), KeyRow(NA, col, NA)}

ExistingColLists == {<<PRIMARY_KEY, Score>>, <<Score>>}
IncomingColLists == {<<PRIMARY_KEY, Score>>, <<PRIMARY_KEY, Note>>, <<Score>>}

ExistingFrames ==
    {NoneDF} \cup
    UNION {UNION {{MkDF(cols, rs) : rs \in [1..n -> ExistingRowPool(cols)]}
                  : n \in 0..MaxExistingRows}
           : cols \in ExistingColLists}

IncomingFrames ==
    {NoneDF} \cup
    UNION {UNION {{MkDF(cols, rs) : rs \in [1..n -> IncomingRowPool(cols)]}
                  : n \in 0..MaxIncomingRows}
           : cols \in IncomingColLists}

-----------------------------------------------------------------------------
(* The files before the first ingestion *)

NoRun ==
    [source |-> "", format |-> "None", encoding |-> "None", rows_loaded |-> 0,
     rows_added |-> 0, rows_updated |-> 0, rows_unchanged |-> 0, columns_added |-> <<>>,
     total_rows |-> 0, total_columns |-> 0, status |-> "none", error |-> "None"]

FilesIdle ==
    /\ working_file = Absent
    /\ master_file = Absent
    /\ backups = {}
    /\ now = 0
    /\ runs = 0
    /\ run_record = NoRun
    /\ run_merge_stats = NoStats
    /\ log_count = 0
    /\ faulty_runs = 0

\* ingest_directory has not been called
NoSummary ==
    [total_files |-> 0, successful |-> 0, failed |-> 0, total_rows_added |-> 0,
     total_rows_updated |-> 0, total_columns_added |-> <<>>, errors |-> <<>>,
     file_results |-> <<>>]

DirIdle ==
    /\ dir_pc = "idle"
    /\ dir_exists = FALSE
    /\ all_files = {}
    /\ supported_files = <<>>
    /\ dir_i = 0
    /\ aggregate = NoSummary
    /\ calls = <<>>

\* read_with_encoding_cascade has not been called
NoFile == [exists |-> FALSE, bytes |-> <<>>]

NoOutcome == [kind |-> "none", text |-> <<>>, encoding |-> "None"]

EncIdle ==
    /\ enc_pc = "idle"
    /\ enc_file = NoFile
    /\ enc_i = 0
    /\ enc_errors = <<>>
    /\ enc_out = NoOutcome

\* _detect_header_row has not been called
HdrIdle ==
    /\ hdr_pc = "idle"
    /\ hdr_df = <<>>
    /\ hdr_max = 0
    /\ hdr_out = 0

\* evolve_schema has not been called
EvoIdle ==
    /\ evo_pc = "idle"
    /\ evo_master = NoneDF
    /\ evo_incoming = NoneDF
    /\ evo_out = [df |-> NoneDF, new_cols |-> <<>>]

\* save_upload has not been called
NoUpload == [safe_name |-> <<>>, dest |-> <<>>]

NoUploadArg == [filename |-> <<>>, content |-> ""]

UploadIdle ==
    /\ incoming_dir = <<>>
    /\ upload_arg = NoUploadArg
    /\ upload_ret = NoUpload
    /\ uploads = 0

\* run_ingestion has not been called
NotCalled == [kind |-> "none", stats |-> NoRun]

NoResult == [run_id |-> 0, status |-> "none", filename |-> "None", stats |-> NoRun,
             error |-> "None"]

TrackIdle ==
    /\ trk_pc = "idle"
    /\ run_files = <<>>
    /\ trk_incoming = {}
    /\ trk_filename = "None"
    /\ trk_outcome = NotCalled
    /\ trk_ret = NoResult

\* no concurrent invocations of ingest_file
Invocations == {1, 2}

NoWriter == [master |-> 0, working |-> 0]

RaceIdle ==
    /\ race_pc = [p \in Invocations |-> "idle"]
    /\ race_file = [p \in Invocations |-> ""]
    /\ race_mf = [p \in Invocations |-> Absent]
    /\ race_wf = [p \in Invocations |-> Absent]
    /\ race_res = [p \in Invocations |-> NoRun]
    /\ race_writer = NoWriter
    /\ race_overlap = FALSE
    /\ race_interleaved = FALSE

-----------------------------------------------------------------------------
(* The caller of safe_upsert_merge *)

IdleFrame == NoneDF

NormIdle ==
    /\ norm_pc = "idle"
    /\ raw_headers = <<>>
    /\ norm_once = <<>>
    /\ norm_twice = <<>>

MergeIdle ==
    /\ merge_pc = "idle"
    /\ existing_df = IdleFrame
    /\ incoming_df = IdleFrame
    /\ merge_out = [df |-> NoneDF, stats |-> NoStats]

MergeInit ==
    /\ merge_pc = "called"
    /\ existing_df \in ExistingFrames
    /\ incoming_df \in IncomingFrames
    /\ merge_out = [df |-> NoneDF, stats |-> NoStats]
    /\ NormIdle
    /\ FilesIdle
    /\ DirIdle
    /\ EncIdle
    /\ HdrIdle
    /\ EvoIdle
    /\ UploadIdle
    /\ TrackIdle
    /\ RaceIdle

MergeCall ==
    /\ merge_pc = "called"
    /\ merge_pc' = "returned"
    /\ merge_out' = UpsertRun(existing_df, incoming_df, PRIMARY_KEY)
    /\ UNCHANGED <<existing_df, incoming_df, norm_vars, file_vars, dir_vars, enc_vars, hdr_vars,
                   evo_vars, upload_vars, track_vars, race_vars>>

MergeNext == MergeCall

SpecMerge == MergeInit /\ [][MergeNext]_vars

-----------------------------------------------------------------------------
(* The caller of normalize_columns *)

HeaderAlphabet == {"a", "1", "_"}

\* the strings over the alphabet of at most n characters
RECURSIVE StringsUpTo(_)
StringsUpTo(n) ==
    IF n = 0 THEN {<<>>}
    ELSE StringsUpTo(n - 1) \cup
         {Append(s, c) : s \in {t \in StringsUpTo(n - 1) : Len(t) = n - 1}, c \in HeaderAlphabet}

\* headers with capitals, blanks and punctuation, missing headers
RawHeaders ==
    StringsUpTo(MaxHeaderLen) \cup
    {NAHeader, PdNAHeader, <<" ">>, <<"A">>, <<" ", "A", " ">>, <<"a", " ", "1">>, <<"a", "-", "1">>,
     <<"a", "_", "1">>, <<"a", "_", "1", "_", "1">>,
     <<"(", "a", ")">>, <<"a", ":", "%">>, <<"1", ".", "0">>, <<"%">>,
     <<"c", "o", "l", "_", "1">>, <<"c", "o", "l", "u", "m", "n", "_", "2">>}

\* a frame of one row under the given headers
OneRowTable(headers) == Table(headers, << [i \in DOMAIN headers |-> NA] >>)

NormInit ==
    /\ norm_pc = "start"
    /\ raw_headers \in UNION {[1..n -> RawHeaders] : n \in 1..MaxCols}
    /\ norm_once = <<>>
    /\ norm_twice = <<>>
    /\ MergeIdle
    /\ FilesIdle
    /\ DirIdle
    /\ EncIdle
    /\ HdrIdle
    /\ EvoIdle
    /\ UploadIdle
    /\ TrackIdle
    /\ RaceIdle

Normalize ==
    /\ norm_pc = "start"
    /\ norm_pc' = "once"
    /\ norm_once' = normalize_columns(OneRowTable(raw_headers)).header
    /\ UNCHANGED <<raw_headers, norm_twice, merge_vars, file_vars, dir_vars, enc_vars, hdr_vars,
                   evo_vars, upload_vars, track_vars, race_vars>>

NormalizeAgain ==
    /\ norm_pc = "once"
    /\ norm_pc' = "twice"
    /\ norm_twice' = normalize_columns(OneRowTable(norm_once)).header
    /\ UNCHANGED <<raw_headers, norm_once, merge_vars, file_vars, dir_vars, enc_vars, hdr_vars,
                   evo_vars, upload_vars, track_vars, race_vars>>

NormNext == Normalize \/ NormalizeAgain

SpecNorm == NormInit /\ [][NormNext]_vars

-----------------------------------------------------------------------------
(* The callers of ingest_file: one invocation at a time, on the same files *)

RawCompany == <<"C", "o", "m", "p", "a", "n", "y", " ", "N", "a", "m", "e">>
RawScore == <<"S", "c", "o", "r", "e">>
RawNote == <<" ", "N", "o", "t", "e", ":">>
RawExtra == <<"E", "x", "t", "r", "a", " ", "(", "1", ")">>
RawName == <<"N", "a", "m", "e">>

GoodFile(name, ext, table) ==
    [name |-> name, present |-> TRUE, ext |-> ext, tab_delimited |-> FALSE,
     encoding |-> "utf-8", load |-> "ok", table |-> table]

\* the inputs handed to ingest_file: files that load, a file that is not there,
\* an unsupported extension, a file the loader rejects, a file whose load raises
InputFiles ==
    {GoodFile("first.csv", ".csv",
              Table(<<RawCompany, RawScore, RawNote>>, << <<"A", "x", NA>>, <<"B", NA, "y">> >>)),
     GoodFile("fill.csv", ".csv",
              Table(<<RawCompany, RawScore, RawNote>>, << <<"A", "y", "y">>, <<"C", "x", NA>> >>)),
     GoodFile("extra.xlsx", ".xlsx",
              Table(<<RawCompany, RawScore, RawExtra>>, << <<"A", NA, "x">> >>)),
     GoodFile("nokey.csv", ".csv",
              Table(<<RawName, RawScore, RawNote>>, << <<"A", "x", "y">> >>)),
     GoodFile("anon.xlsx", ".xlsx",
              Table(<<RawCompany, RawScore, RawNote>>, << <<NA, "x", NA>> >>)),
     GoodFile("na.csv", ".csv",
              Table(<<RawCompany, RawScore, RawNote>>, << <<"n/a", "x", NA>> >>)),
     [name |-> "gone.csv", present |-> FALSE, ext |-> ".csv", tab_delimited |-> FALSE,
      encoding |-> "unknown", load |-> "none", table |-> NoTable],
     [name |-> "notes.txt", present |-> TRUE, ext |-> ".txt", tab_delimited |-> FALSE,
      encoding |-> "utf-8", load |-> "none", table |-> NoTable],
     [name |-> "empty.csv", present |-> TRUE, ext |-> ".csv", tab_delimited |-> FALSE,
      encoding |-> "utf-8", load |-> "none", table |-> NoTable],
     [name |-> "broken.xlsx", present |-> TRUE, ext |-> ".xlsx", tab_delimited |-> FALSE,
      encoding |-> "unknown", load |-> "raises", table |-> NoTable]}

\* what the file system may refuse during one invocation: TRUE is a failure
Faults ==
    [read_master : BOOLEAN, backup : BOOLEAN, read_cleaned : BOOLEAN,
     write_master : BOOLEAN, write_cleaned : BOOLEAN]

\* f gets past step 4 of ingest_file
ReachesStep5(f) ==
    /\ f.present
    /\ detect_format(f) # "None"
    /\ f.load = "ok"
    /\ Len(f.table.header) > 0
    /\ Len(f.table.rows) > 0

NoFaults ==
    [read_master |-> FALSE, backup |-> FALSE, read_cleaned |-> FALSE,
     write_master |-> FALSE, write_cleaned |-> FALSE]

\* a read or a copy can only fail on a file that is there, and nothing can
\* fail in a step the invocation does not get to
PossibleFaults(f, wf, mf) ==
    {flt \in Faults : /\ flt.read_master => mf.exists
                      /\ flt.backup => wf.exists
                      /\ flt.read_cleaned => wf.exists
                      /\ ~ReachesStep5(f) => flt = NoFaults}

Init == FilesIdle /\ MergeIdle /\ NormIdle /\ DirIdle /\ EncIdle /\ HdrIdle /\ EvoIdle /\ UploadIdle /\ TrackIdle /\ RaceIdle

IngestFile ==
    /\ runs < MaxRuns
    /\ \E f \in InputFiles : \E flt \in PossibleFaults(f, working_file, master_file) :
          /\ flt # NoFaults => faulty_runs < MaxFaultyRuns
          /\ \E r \in {ingest_file(f, flt, working_file, master_file, backups, now)} :
                /\ working_file' = r.working
                /\ master_file' = r.master
                /\ backups' = r.backups
                /\ run_record' = r.stats
                /\ run_merge_stats' = r.merge_stats
                /\ log_count' = log_count + r.logged
          /\ faulty_runs' = IF flt # NoFaults THEN faulty_runs + 1 ELSE faulty_runs
    /\ runs' = runs + 1
    /\ UNCHANGED <<now, merge_vars, norm_vars, dir_vars, enc_vars, hdr_vars, evo_vars, upload_vars,
                   track_vars, race_vars>>

\* a second passes
Tick ==
    /\ now < MaxClock
    /\ now' = now + 1
    /\ UNCHANGED <<working_file, master_file, backups, runs, run_record, run_merge_stats,
                   log_count, faulty_runs, merge_vars, norm_vars, dir_vars, enc_vars, hdr_vars,
                   evo_vars, upload_vars, track_vars, race_vars>>

Next == IngestFile \/ Tick

Spec == Init /\ [][Next]_vars

-----------------------------------------------------------------------------
(* Batch Processor: ingest_directory, one file of the loop at a time *)

ByName(n) == CHOOSE f \in InputFiles : f.name = n

DirEntry(f, isfile) == [file |-> f, isfile |-> isfile]

\* what a data directory can hold: inputs, a file of another kind, the two
\* generated files of an earlier ingestion, and a sub-directory
DirEntryPool ==
    {DirEntry(ByName("first.csv"), TRUE),
     DirEntry(ByName("extra.xlsx"), TRUE),
     DirEntry(ByName("broken.xlsx"), TRUE),
     DirEntry(ByName("notes.txt"), TRUE),
     DirEntry(GoodFile("cleaned_master.csv", ".csv", ByName("first.csv").table), TRUE),
     DirEntry(GoodFile("master_database.csv", ".csv", ByName("first.csv").table), TRUE),
     DirEntry(GoodFile("archive.csv", ".csv", NoTable), FALSE)}

exclude_names == {"cleaned_master.csv", "master_database.csv"}

\* the two list comprehensions: supported extension, a regular file, not an
\* output file
DiscoveredWithOutputs(all) ==
    {e \in all : e.file.ext \in SUPPORTED_EXTENSIONS /\ e.isfile}

Discovered(all) ==
    {e \in all : /\ e.file.ext \in SUPPORTED_EXTENSIONS
                 /\ e.isfile
                 /\ e.file.name \notin exclude_names}

\* supported_files.sort(key=os.path.getmtime, reverse=True): the modification
\* times are the file system's, so every order of the files can come out
Orderings(S) ==
    {q \in [1..Cardinality(S) -> S] : \A i, j \in 1..Cardinality(S) : i # j => q[i] # q[j]}

NotFoundSummary == [NoSummary EXCEPT !.errors = <<[name |-> "", error |-> "Directory not found"]>>]

EmptySummary == NoSummary

StartSummary(n) == [NoSummary EXCEPT !.total_files = n]

\* the body of the try: the Run Record is appended and counted
RecordResult(agg, name, result) ==
    LET kept == [agg EXCEPT !.file_results = Append(@, result)]
    IN IF result.status = "success"
       THEN [kept EXCEPT !.successful = @ + 1,
                         !.total_rows_added = @ + result.rows_added,
                         !.total_rows_updated = @ + result.rows_updated,
                         !.total_columns_added = @ \o result.columns_added]
       ELSE [kept EXCEPT !.failed = @ + 1,
                         !.errors = Append(@, [name |-> name, error |-> result.error])]

RecordExceptionSilently(agg, name) == [agg EXCEPT !.failed = @ + 1]

\* the except branch
RecordException(agg, name) ==
    [agg EXCEPT !.failed = @ + 1,
                !.errors = Append(@, [name |-> name, error |-> "Exception"])]

KeepDuplicates(agg) == agg

\* aggregate["total_columns_added"] = sorted(set(...))
Deduplicate(agg) ==
    [agg EXCEPT !.total_columns_added = SortedSeq(Range(@))]

\* the generated files a directory listing shows are there
PriorRun == ingest_file(ByName("first.csv"), NoFaults, Absent, Absent, {}, 0)

Names(all) == {e.file.name : e \in all}

DirInit ==
    /\ dir_pc = "called"
    /\ dir_exists \in BOOLEAN
    /\ all_files \in {S \in SUBSET DirEntryPool : Cardinality(S) <= MaxDirFiles}
    /\ ~dir_exists => all_files = {}
    /\ supported_files = <<>>
    /\ dir_i = 0
    /\ aggregate = NoSummary
    /\ calls = <<>>
    /\ working_file = IF "cleaned_master.csv" \in Names(all_files) THEN PriorRun.working ELSE Absent
    /\ master_file = IF "master_database.csv" \in Names(all_files) THEN PriorRun.master ELSE Absent
    /\ backups = {}
    /\ now = 0
    /\ runs = 0
    /\ run_record = NoRun
    /\ run_merge_stats = NoStats
    /\ log_count = 0
    /\ faulty_runs = 0
    /\ MergeIdle
    /\ NormIdle
    /\ EncIdle
    /\ HdrIdle
    /\ EvoIdle
    /\ UploadIdle
    /\ TrackIdle
    /\ RaceIdle

\* from the call to the first iteration of the loop, or to an early return
DirScan ==
    /\ dir_pc = "called"
    /\ IF ~dir_exists
       THEN /\ aggregate' = NotFoundSummary
            /\ supported_files' = <<>>
            /\ dir_pc' = "returned"
       ELSE \E q \in Orderings(Discovered(all_files)) :
               /\ supported_files' = q
               /\ IF Len(q) = 0
                  THEN aggregate' = EmptySummary /\ dir_pc' = "returned"
                  ELSE aggregate' = StartSummary(Len(q)) /\ dir_pc' = "loop"
    /\ dir_i' = 1
    /\ UNCHANGED <<dir_exists, all_files, calls, merge_vars, norm_vars, file_vars,
                   enc_vars, hdr_vars, evo_vars, upload_vars, track_vars, race_vars>>

\* one iteration in which ingest_file returns its Run Record, the file system
\* failing or not
DirIngest ==
    /\ dir_pc = "loop"
    /\ dir_i <= Len(supported_files)
    /\ LET f == supported_files[dir_i].file
       IN \E flt \in PossibleFaults(f, working_file, master_file) :
             /\ flt # NoFaults => faulty_runs < MaxFaultyRuns
             /\ \E r \in {ingest_file(f, flt, working_file, master_file, backups, now)} :
                   /\ working_file' = r.working
                   /\ master_file' = r.master
                   /\ backups' = r.backups
                   /\ run_record' = r.stats
                   /\ run_merge_stats' = r.merge_stats
                   /\ log_count' = log_count + r.logged
                   /\ aggregate' = RecordResult(aggregate, f.name, r.stats)
                   /\ calls' = Append(calls, [file |-> f, outcome |-> r.stats.status])
             /\ faulty_runs' = IF flt # NoFaults THEN faulty_runs + 1 ELSE faulty_runs
    /\ dir_i' = dir_i + 1
    /\ runs' = runs + 1
    /\ UNCHANGED <<dir_pc, dir_exists, all_files, supported_files, now, merge_vars, norm_vars,
                   enc_vars, hdr_vars, evo_vars, upload_vars, track_vars, race_vars>>

\* one iteration in which an exception escapes ingest_file before it wrote
DirRaise ==
    /\ dir_pc = "loop"
    /\ dir_i <= Len(supported_files)
    /\ LET f == supported_files[dir_i].file
       IN /\ aggregate' = RecordException(aggregate, f.name)
          /\ calls' = Append(calls, [file |-> f, outcome |-> "raised"])
    /\ dir_i' = dir_i + 1
    /\ runs' = runs + 1
    /\ UNCHANGED <<dir_pc, dir_exists, all_files, supported_files, working_file, master_file,
                   backups, now, run_record, run_merge_stats, log_count, faulty_runs,
                   merge_vars, norm_vars,
                   enc_vars, hdr_vars, evo_vars, upload_vars, track_vars, race_vars>>

\* after the loop: the column list is deduplicated and the summary returned
DirFinish ==
    /\ dir_pc = "loop"
    /\ dir_i > Len(supported_files)
    /\ aggregate' = Deduplicate(aggregate)
    /\ dir_pc' = "returned"
    /\ UNCHANGED <<dir_exists, all_files, supported_files, dir_i, calls,
                   merge_vars, norm_vars, file_vars,
                   enc_vars, hdr_vars, evo_vars, upload_vars, track_vars, race_vars>>

DirNext == DirScan \/ DirIngest \/ DirRaise \/ DirFinish

SpecDir == DirInit /\ [][DirNext]_vars

-----------------------------------------------------------------------------
(* Encoding Detector: read_with_encoding_cascade, one attempt at a time *)

CascadeLatinFirst == <<"latin1", "cp1252", "utf-8-sig", "utf-8">>

ENCODING_CASCADE == <<"utf-8", "utf-8-sig", "cp1252", "latin1">>

\* The bytes of a file, in groups: an ASCII letter, the UTF-8 byte order mark
\* EF BB BF, the UTF-8 form C3 A9 of e-acute, the single byte E9 (e-acute in
\* cp1252 and latin1, in UTF-8 the lead byte of a three-byte sequence), and
\* the single byte 81 (a UTF-8 continuation byte, undefined in cp1252)
ByteGroups == {"a", "EFBBBF", "C3A9", "E9", "81"}

RECURSIVE Utf8Ok(_)
Utf8Ok(bytes) ==
    IF bytes = <<>> THEN TRUE
    ELSE IF Head(bytes) \in {"a", "EFBBBF", "C3A9"} THEN Utf8Ok(Tail(bytes))
    ELSE IF Head(bytes) = "E9"
         THEN /\ Len(bytes) >= 3
              /\ bytes[2] = "81"
              /\ bytes[3] = "81"
              /\ Utf8Ok(SubSeq(bytes, 4, Len(bytes)))
    ELSE FALSE

\* the code points of the decoded text, for bytes that are valid UTF-8
RECURSIVE Utf8Text(_)
Utf8Text(bytes) ==
    IF bytes = <<>> THEN <<>>
    ELSE IF Head(bytes) = "a" THEN <<"U+0061">> \o Utf8Text(Tail(bytes))
    ELSE IF Head(bytes) = "EFBBBF" THEN <<"U+FEFF">> \o Utf8Text(Tail(bytes))
    ELSE IF Head(bytes) = "C3A9" THEN <<"U+00E9">> \o Utf8Text(Tail(bytes))
    ELSE <<"U+9041">> \o Utf8Text(SubSeq(bytes, 4, Len(bytes)))

\* utf-8-sig drops one leading byte order mark
SkipBom(bytes) ==
    IF bytes # <<>> /\ Head(bytes) = "EFBBBF" THEN Tail(bytes) ELSE bytes

\* one code point per byte; latin1 maps every byte, cp1252 all but five
RECURSIVE SingleByteText(_)
SingleByteText(bytes) ==
    IF bytes = <<>> THEN <<>>
    ELSE (CASE Head(bytes) = "a" -> <<"U+0061">>
            [] Head(bytes) = "EFBBBF" -> <<"U+00EF", "U+00BB", "U+00BF">>
            [] Head(bytes) = "C3A9" -> <<"U+00C3", "U+00A9">>
            [] Head(bytes) = "E9" -> <<"U+00E9">>
            [] Head(bytes) = "81" -> <<"U+0081">>)
         \o SingleByteText(Tail(bytes))

\* open(file_path, "r", encoding=encoding).read() does not raise UnicodeDecodeError
DecodeOk(bytes, encoding) ==
    CASE encoding = "utf-8" -> Utf8Ok(bytes)
      [] encoding = "utf-8-sig" -> Utf8Ok(SkipBom(bytes))
      [] encoding = "cp1252" -> "81" \notin Range(bytes)
      [] encoding = "latin1" -> TRUE

\* content
DecodeText(bytes, encoding) ==
    CASE encoding = "utf-8" -> Utf8Text(bytes)
      [] encoding = "utf-8-sig" -> Utf8Text(SkipBom(bytes))
      [] encoding = "cp1252" -> SingleByteText(bytes)
      [] encoding = "latin1" -> SingleByteText(bytes)

BytesUpTo(n) == UNION {[1..k -> ByteGroups] : k \in 0..n}

TextFiles == {NoFile} \cup {[exists |-> TRUE, bytes |-> b] : b \in BytesUpTo(MaxBytes)}

Raised(kind) == [kind |-> kind, text |-> <<>>, encoding |-> "None"]

EncInit ==
    /\ enc_pc = "called"
    /\ enc_file \in TextFiles
    /\ enc_i = 1
    /\ enc_errors = <<>>
    /\ enc_out = NoOutcome
    /\ MergeIdle
    /\ NormIdle
    /\ FilesIdle
    /\ DirIdle
    /\ HdrIdle
    /\ EvoIdle
    /\ UploadIdle
    /\ TrackIdle
    /\ RaceIdle

\* os.path.exists(file_path) is false
EncNotFound ==
    /\ enc_pc = "called"
    /\ ~enc_file.exists
    /\ enc_out' = Raised("FileNotFoundError")
    /\ enc_pc' = "raised"
    /\ UNCHANGED <<enc_file, enc_i, enc_errors>>
    /\ UNCHANGED <<merge_vars, norm_vars, file_vars, dir_vars, hdr_vars, evo_vars, upload_vars,
                   track_vars, race_vars>>

\* an attempt in which the file is opened and read: the text is returned, or
\* the UnicodeDecodeError is noted and the next encoding is up
EncRead ==
    /\ enc_pc = "called"
    /\ enc_file.exists
    /\ enc_i <= Len(ENCODING_CASCADE)
    /\ LET encoding == ENCODING_CASCADE[enc_i]
       IN IF DecodeOk(enc_file.bytes, encoding)
          THEN /\ enc_out' = [kind |-> "returned",
                              text |-> DecodeText(enc_file.bytes, encoding),
                              encoding |-> encoding]
               /\ enc_pc' = "returned"
               /\ UNCHANGED <<enc_i, enc_errors>>
          ELSE /\ enc_errors' = Append(enc_errors, [encoding |-> encoding, kind |-> "decode"])
               /\ enc_i' = enc_i + 1
               /\ UNCHANGED <<enc_pc, enc_out>>
    /\ UNCHANGED enc_file
    /\ UNCHANGED <<merge_vars, norm_vars, file_vars, dir_vars, hdr_vars, evo_vars, upload_vars,
                   track_vars, race_vars>>

\* an attempt in which open raises PermissionError: re-raised
EncLocked ==
    /\ enc_pc = "called"
    /\ enc_file.exists
    /\ enc_i <= Len(ENCODING_CASCADE)
    /\ enc_out' = Raised("PermissionError")
    /\ enc_pc' = "raised"
    /\ UNCHANGED <<enc_file, enc_i, enc_errors>>
    /\ UNCHANGED <<merge_vars, norm_vars, file_vars, dir_vars, hdr_vars, evo_vars, upload_vars,
                   track_vars, race_vars>>

\* an attempt in which open or read raises another exception (an I/O error,
\* a path that is a directory): noted, and the next encoding is up
EncUnexpected ==
    /\ enc_pc = "called"
    /\ enc_file.exists
    /\ enc_i <= Len(ENCODING_CASCADE)
    /\ enc_errors' = Append(enc_errors, [encoding |-> ENCODING_CASCADE[enc_i], kind |-> "other"])
    /\ enc_i' = enc_i + 1
    /\ UNCHANGED <<enc_pc, enc_file, enc_out>>
    /\ UNCHANGED <<merge_vars, norm_vars, file_vars, dir_vars, hdr_vars, evo_vars, upload_vars,
                   track_vars, race_vars>>

\* after the loop: all encodings failed
EncExhausted ==
    /\ enc_pc = "called"
    /\ enc_file.exists
    /\ enc_i > Len(ENCODING_CASCADE)
    /\ enc_out' = Raised("UnicodeDecodeError")
    /\ enc_pc' = "raised"
    /\ UNCHANGED <<enc_file, enc_i, enc_errors>>
    /\ UNCHANGED <<merge_vars, norm_vars, file_vars, dir_vars, hdr_vars, evo_vars, upload_vars,
                   track_vars, race_vars>>

EncNext == EncNotFound \/ EncRead \/ EncLocked \/ EncUnexpected \/ EncExhausted

SpecEnc == EncInit /\ [][EncNext]_vars

-----------------------------------------------------------------------------
(* Header Detector: _detect_header_row on the raw table of a loader *)

HEADER_KEYWORDS ==
    {<<"c", "o", "m", "p", "a", "n", "y">>, <<"n", "a", "m", "e">>,
     <<"e", "m", "a", "i", "l">>,
     <<"s", "u", "b", "m", "i", "t", "d", "a", "t", "e">>,
     <<"u", "p", " ", "-">>, <<"i", "n", " ", "-">>, <<"d", "o", " ", "-">>}

\* keyword in row_str
Contains(str, keyword) ==
    \E i \in 1..(Len(str) - Len(keyword) + 1) : SubSeq(str, i, i + Len(keyword) - 1) = keyword

\* "" for a missing value, str(val).lower() otherwise
RowString(val) == IF val = NAHeader THEN <<>> ELSE LowerStr(val)

row_strings(row) == [i \in DOMAIN row |-> RowString(row[i])]

\* s.isdigit()
IsDigitStr(str) == str # <<>> /\ \A i \in DOMAIN str : IsDigit(str[i])

keyword_matches(strs) ==
    Cardinality({i \in DOMAIN strs : \E keyword \in HEADER_KEYWORDS : Contains(strs[i], keyword)})

text_count(strs) ==
    Cardinality({i \in DOMAIN strs :
                    /\ strs[i] # <<>>
                    /\ ~IsDigitStr(ReplaceChar(ReplaceChar(strs[i], ".", <<>>), "-", <<>>))})

non_empty(strs) == Cardinality({i \in DOMAIN strs : strs[i] # <<>>})

\* The lengths n up to 100 for which the double n * 0.7 is smaller than the
\* integer 7n/10: 90 * 0.7 is 62.99999999999999.
ProductBelowExact == {90}

\* count > n * 0.7 in double precision: the product is off by less than 1e-13,
\* which changes the comparison only when 7n/10 is an integer
ExceedsSeventyPercent(count, n) ==
    IF (7 * n) % 10 = 0 /\ n \in ProductBelowExact
    THEN 10 * count >= 7 * n
    ELSE 10 * count > 7 * n

\* count > n * 0.5: n * 0.5 is exact
ExceedsHalf(count, n) == 2 * count > n

\* the row makes the loop return its index
RowAccepted(row) ==
    LET strs == row_strings(row)
    IN \/ keyword_matches(strs) >= 3
       \/ /\ ExceedsSeventyPercent(text_count(strs), Len(strs))
          /\ ExceedsHalf(non_empty(strs), Len(strs))

\* for idx in range(idx, limit): return idx at the first accepted row; 0 after the loop
RECURSIVE ScanRows(_, _, _)
ScanRows(df, idx, limit) ==
    IF idx >= limit THEN 0
    ELSE IF RowAccepted(df[idx + 1]) THEN idx
    ELSE ScanRows(df, idx + 1, limit)

detect_header_row(df, max_rows_to_check) ==
    ScanRows(df, 0, Min2(max_rows_to_check, Len(df)))

CellName == <<"N", "a", "m", "e">>
CellEmail == <<"E", "-", "m", "a", "i", "l">>
CellCompany == <<"c", "o", "m", "p", "a", "n", "y">>
CellText == <<"a", "b">>
CellNumber == <<"1", "2">>
CellNegative == <<"-", "1", ".", "5">>
CellDash == <<"-">>

Repeat(cell, n) == [i \in 1..n |-> cell]

\* the raw rows of three columns
NarrowRows == [1..3 -> {CellName, CellNumber, NAHeader}]

\* raw rows of five columns around the thresholds of the two rules
MediumRows ==
    {<<CellName, CellEmail, CellCompany, NAHeader, NAHeader>>,
     <<CellName, CellCompany, NAHeader, NAHeader, NAHeader>>,
     <<CellName, CellEmail, CellNumber, CellNumber, CellNumber>>,
     <<CellText, CellText, CellDash, CellText, NAHeader>>,
     <<CellText, CellText, CellText, CellNumber, CellNegative>>,
     <<CellText, CellText, NAHeader, NAHeader, NAHeader>>,
     <<CellNumber, CellNegative, CellNumber, CellNumber, CellNumber>>}

\* raw rows of ninety columns: text cells first, numbers after them
WideRows == {Repeat(CellText, k) \o Repeat(CellNumber, 90 - k) : k \in {0, 62, 63, 64}}

TablesOf(rows) == UNION {[1..n -> rows] : n \in 2..MaxTableRows}

\* the loaders hand over a table of at least two rows and three columns
RawTables == TablesOf(NarrowRows) \cup TablesOf(MediumRows) \cup TablesOf(WideRows)

\* the default of max_rows_to_check, and values under the number of rows
RowsToCheck == {1, 2, 10}

HdrInit ==
    /\ hdr_pc = "called"
    /\ hdr_df \in RawTables
    /\ hdr_max \in RowsToCheck
    /\ hdr_out = 0
    /\ MergeIdle
    /\ NormIdle
    /\ FilesIdle
    /\ DirIdle
    /\ EncIdle
    /\ EvoIdle
    /\ UploadIdle
    /\ TrackIdle
    /\ RaceIdle

DetectHeaderRow ==
    /\ hdr_pc = "called"
    /\ hdr_out' = detect_header_row(hdr_df, hdr_max)
    /\ hdr_pc' = "returned"
    /\ UNCHANGED <<hdr_df, hdr_max, merge_vars, norm_vars, file_vars, dir_vars, enc_vars, evo_vars,
                   upload_vars, track_vars, race_vars>>

HdrNext == DetectHeaderRow

SpecHdr == HdrInit /\ [][HdrNext]_vars

-----------------------------------------------------------------------------
(* The caller of evolve_schema *)

Extra == <<"e", "x", "t", "r", "a">>

NewCol == <<"n", "e", "w", "_", "c", "o", "l">>

\* a row on the columns cols: populated at the odd positions when full is odd,
\* at all positions when it is 2, missing everywhere when it is 0
SchemaRow(cols, full) ==
    [c \in Range(cols) |->
        IF full = 2 THEN "x"
        ELSE IF full = 1 /\ c = cols[1] THEN "A"
        ELSE NA]

SchemaFrames(collists, maxrows) ==
    {NoneDF, EmptyDF} \cup
    UNION {UNION {{MkDF(cols, rs) : rs \in [1..n -> {SchemaRow(cols, k) : k \in 0..2}]}
                  : n \in 0..maxrows}
           : cols \in collists}

MasterColLists == {<<PRIMARY_KEY, Score>>, <<Score, NewCol>>}

\* the incoming columns in the order of the test, and in another order
EvolveIncomingColLists ==
    {<<PRIMARY_KEY, Score>>, <<PRIMARY_KEY, Score, NewCol, Extra>>, <<Extra, Score>>}

EvoInit ==
    /\ evo_pc = "called"
    /\ evo_master \in SchemaFrames(MasterColLists, MaxMasterRows)
    /\ evo_incoming \in SchemaFrames(EvolveIncomingColLists, 1)
    /\ evo_out = [df |-> NoneDF, new_cols |-> <<>>]
    /\ MergeIdle
    /\ NormIdle
    /\ FilesIdle
    /\ DirIdle
    /\ EncIdle
    /\ HdrIdle
    /\ UploadIdle
    /\ TrackIdle
    /\ RaceIdle

EvolveCall ==
    /\ evo_pc = "called"
    /\ evo_out' = evolve_schema(evo_master, evo_incoming)
    /\ evo_pc' = "returned"
    /\ UNCHANGED <<evo_master, evo_incoming, merge_vars, norm_vars, file_vars, dir_vars,
                   enc_vars, hdr_vars, upload_vars, track_vars, race_vars>>

EvoNext == EvolveCall

SpecEvolve == EvoInit /\ [][EvoNext]_vars

-----------------------------------------------------------------------------
(* File Upload Handler: file names are sequences of characters *)

CSV == <<".", "c", "s", "v">>

ALLOWED_EXTENSIONS == {<<".", "x", "l", "s", "x">>, <<".", "x", "l", "s">>, CSV,
                       <<".", "t", "s", "v">>}

\* the positions of character c in s
Positions(s, c) == {i \in DOMAIN s : s[i] = c}

MaxOf(S) == CHOOSE m \in S : \A n \in S : n <= m

\* s.endswith(t)
EndsWith(s, t) == Len(s) >= Len(t) /\ SubSeq(s, Len(s) - Len(t) + 1, Len(s)) = t

\* Path(filename).name: the last component, trailing separators dropped
PathName(filename) ==
    LET s == RStripChars(filename, {"/"})
        slashes == Positions(s, "/")
    IN IF slashes = {} THEN s ELSE SubSeq(s, MaxOf(slashes) + 1, Len(s))

\* the position that splits a name into stem and suffix: the last dot, when it
\* is neither the first nor the last character; 0 when there is none
SuffixAt(name) ==
    LET dots == Positions(name, ".")
    IN IF dots # {} /\ MaxOf(dots) > 1 /\ MaxOf(dots) < Len(name) THEN MaxOf(dots) ELSE 0

\* Path(name).stem, Path(name).suffix
PathStem(name) == IF SuffixAt(name) = 0 THEN name ELSE SubSeq(name, 1, SuffixAt(name) - 1)
PathSuffix(name) == IF SuffixAt(name) = 0 THEN <<>> ELSE SubSeq(name, SuffixAt(name), Len(name))

\* the characters re.sub(r'[^a-zA-Z0-9._-]', '_', ...) keeps
IsSafeChar(c) ==
    c \in SeqRange(Digits) \cup SeqRange(LowerLetters) \cup SeqRange(UpperLetters)
          \cup {".", "_", "-"}

sanitize_filename(filename) ==
    LET name == PathName(filename)
        safe1 == [i \in DOMAIN name |-> IF IsSafeChar(name[i]) THEN name[i] ELSE "_"]
        safe2 == IF safe1 # <<>> /\ safe1[1] = "."
                 THEN <<"f", "i", "l", "e", "_">> \o safe1 ELSE safe1
    IN IF \E ext \in ALLOWED_EXTENSIONS : EndsWith(safe2, ext) THEN safe2 ELSE safe2 \o CSV

\* a file of the incoming directory; DATA_DIR / name is modelled by the name
FileNames(dir) == {dir[i].name : i \in DOMAIN dir}

\* dest.exists()
Exists(dir, dest) == dest \in FileNames(dir)

\* lines 89-96 with the probe of line 91 left out
FirstDestination(dir, safe_name, counter) == [safe_name |-> safe_name, dest |-> safe_name]

\* lines 89-96: the loop renames until the destination does not exist; each
\* round takes stem and suffix from the name the round before produced
RECURSIVE FreeDestination(_, _, _)
FreeDestination(dir, safe_name, counter) ==
    IF Exists(dir, safe_name)
    THEN FreeDestination(dir,
                         PathStem(safe_name) \o <<"_">> \o IntStr(counter)
                             \o PathSuffix(safe_name),
                         counter + 1)
    ELSE [safe_name |-> safe_name, dest |-> safe_name]

\* dest.write_bytes(content): creates the file or replaces its content
WriteBytes(dir, dest, content) ==
    IF Exists(dir, dest)
    THEN [i \in DOMAIN dir |->
             IF dir[i].name = dest THEN [name |-> dest, content |-> content] ELSE dir[i]]
    ELSE Append(dir, [name |-> dest, content |-> content])

\* file names a client sends: the same name again, a name the renaming
\* produces, names that sanitize to one another, a path, a hidden file, a name
\* without extension
UploadNames ==
    {<<"d", ".", "c", "s", "v">>,
     <<"d", "_", "1", ".", "c", "s", "v">>,
     <<"d", " ", "1", ".", "c", "s", "v">>,
     <<".", ".", "/", "d", ".", "c", "s", "v">>,
     <<".", "c", "s", "v">>,
     <<"d">>}

UploadContents == {"first", "second"}

\* the incoming directory before the first upload: empty, or holding a file
\* saved earlier
InitialDirs ==
    {<<>>, <<[name |-> <<"d", "_", "1", ".", "c", "s", "v">>, content |-> "old"]>>}

UploadInit ==
    /\ incoming_dir \in InitialDirs
    /\ upload_arg = NoUploadArg
    /\ upload_ret = NoUpload
    /\ uploads = 0
    /\ MergeIdle
    /\ NormIdle
    /\ FilesIdle
    /\ DirIdle
    /\ EncIdle
    /\ HdrIdle
    /\ EvoIdle
    /\ TrackIdle
    /\ RaceIdle

\* save_upload(filename, content); the coroutine has no await, so a call runs
\* to its end before the event loop starts another
SaveUpload ==
    /\ uploads < MaxUploads
    /\ \E filename \in UploadNames, content \in UploadContents :
          \E r \in {FreeDestination(incoming_dir, sanitize_filename(filename), 1)} :
              /\ incoming_dir' = WriteBytes(incoming_dir, r.dest, content)
              /\ upload_ret' = r
              /\ upload_arg' = [filename |-> filename, content |-> content]
    /\ uploads' = uploads + 1
    /\ UNCHANGED <<merge_vars, norm_vars, file_vars, dir_vars, enc_vars, hdr_vars, evo_vars, track_vars,
                   race_vars>>

UploadNext == SaveUpload

SpecUpload == UploadInit /\ [][UploadNext]_vars

-----------------------------------------------------------------------------
(* Run Tracker and Pipeline Orchestrator: run_ingestion, one step at a time *)

\* completed_at is None, or the time of the update, datetime.utcnow().isoformat()
NoTime == <<>>
IsoFormat(ts) == <<ts>>

\* create_run("ingest", filename=filename): the metadata written for a new run
NewRun(run_id, filename) ==
    [run_id |-> run_id, type |-> "ingest", status |-> "pending", filename |-> filename,
     completed_at |-> NoTime, error |-> "None", stats |-> NoRun]

\* update_run_status(run_id, status, error, stats=...): error is stored when it
\* is not empty, completed_at when the status is success or failed; has_stats
\* says whether the keyword stats was passed
update_run_status(files, run_id, status, error, has_stats, stats, ts) ==
    IF run_id \notin DOMAIN files THEN files
    ELSE LET m1 == [files[run_id] EXCEPT !.status = status]
             m2 == IF error # "" /\ error # "None" THEN [m1 EXCEPT !.error = error] ELSE m1
             m3 == IF status \in {"success", "failed"}
                   THEN [m2 EXCEPT !.completed_at = IsoFormat(ts)] ELSE m2
             m4 == IF has_stats THEN [m3 EXCEPT !.stats = stats] ELSE m3
         IN [files EXCEPT ![run_id] = m4]

\* lines 48-60: whatever ingest_file returns, the run is marked success
StatusAfterReturn(stats) == "success"

\* the run run_ingestion is working on: the one created last
CurrentRun == Len(run_files)

\* file names a client passes to run_ingestion; "None" asks for the most
\* recent file of /data/incoming
TrackNames == {"None"} \cup {f.name : f \in InputFiles}

\* what /data/incoming holds
IncomingListings == {{}, {"first.csv", "broken.xlsx"}}

TrackInit ==
    /\ trk_pc = "idle"
    /\ run_files = <<>>
    /\ trk_incoming \in IncomingListings
    /\ trk_filename = "None"
    /\ trk_outcome = NotCalled
    /\ trk_ret = NoResult
    /\ FilesIdle
    /\ MergeIdle
    /\ NormIdle
    /\ DirIdle
    /\ EncIdle
    /\ HdrIdle
    /\ EvoIdle
    /\ UploadIdle
    /\ RaceIdle

\* line 27: run_ingestion is called and creates the run
TrkCreate ==
    /\ trk_pc \in {"idle", "returned"}
    /\ Len(run_files) < MaxTrackedRuns
    /\ \E filename \in TrackNames :
          /\ run_files' = Append(run_files, NewRun(Len(run_files) + 1, filename))
          /\ trk_filename' = filename
    /\ trk_pc' = "created"
    /\ trk_outcome' = NotCalled
    /\ trk_ret' = NoResult
    /\ UNCHANGED <<trk_incoming, file_vars, merge_vars, norm_vars, dir_vars, enc_vars, hdr_vars,
                   evo_vars, upload_vars, race_vars>>

\* line 30
TrkRunning ==
    /\ trk_pc = "created"
    /\ run_files' = update_run_status(run_files, CurrentRun, "running", "None", FALSE, NoRun, now)
    /\ trk_pc' = "running"
    /\ UNCHANGED <<trk_incoming, trk_filename, trk_outcome, trk_ret, file_vars, merge_vars,
                   norm_vars, dir_vars, enc_vars, hdr_vars, evo_vars, upload_vars, race_vars>>

\* lines 36-46: without a filename the most recent file of /data/incoming is
\* taken, and FileNotFoundError is raised when there is none
TrkResolve ==
    /\ trk_pc = "running"
    /\ IF trk_filename # "None"
       THEN trk_pc' = "resolved" /\ UNCHANGED <<trk_filename, trk_outcome>>
       ELSE IF trk_incoming = {}
            THEN /\ trk_pc' = "raised"
                 /\ trk_outcome' = [kind |-> "no_files", stats |-> NoRun]
                 /\ UNCHANGED trk_filename
            ELSE /\ \E name \in trk_incoming : trk_filename' = name
                 /\ trk_pc' = "resolved"
                 /\ UNCHANGED trk_outcome
    /\ UNCHANGED <<run_files, trk_incoming, trk_ret, file_vars, merge_vars, norm_vars, dir_vars,
                   enc_vars, hdr_vars, evo_vars, upload_vars, race_vars>>

\* line 48: ingest_file returns its Run Record
TrkIngest ==
    /\ trk_pc = "resolved"
    /\ LET f == ByName(trk_filename)
       IN \E flt \in PossibleFaults(f, working_file, master_file) :
             /\ flt # NoFaults => faulty_runs < MaxFaultyRuns
             /\ \E r \in {ingest_file(f, flt, working_file, master_file, backups, now)} :
                   /\ working_file' = r.working
                   /\ master_file' = r.master
                   /\ backups' = r.backups
                   /\ run_record' = r.stats
                   /\ run_merge_stats' = r.merge_stats
                   /\ log_count' = log_count + r.logged
                   /\ trk_outcome' = [kind |-> "returned", stats |-> r.stats]
             /\ faulty_runs' = IF flt # NoFaults THEN faulty_runs + 1 ELSE faulty_runs
    /\ runs' = runs + 1
    /\ trk_pc' = "ingested"
    /\ UNCHANGED <<run_files, trk_incoming, trk_filename, trk_ret, now, merge_vars, norm_vars,
                   dir_vars, enc_vars, hdr_vars, evo_vars, upload_vars, race_vars>>

\* line 48: an exception escapes ingest_file before it wrote
TrkIngestRaises ==
    /\ trk_pc = "resolved"
    /\ trk_outcome' = [kind |-> "raised", stats |-> NoRun]
    /\ runs' = runs + 1
    /\ trk_pc' = "raised"
    /\ UNCHANGED <<run_files, trk_incoming, trk_filename, trk_ret, working_file, master_file,
                   backups, now, run_record, run_merge_stats, log_count, faulty_runs,
                   merge_vars, norm_vars, dir_vars, enc_vars, hdr_vars, evo_vars, upload_vars,
                   race_vars>>

\* lines 51-60
TrkSuccess ==
    /\ trk_pc = "ingested"
    /\ \E status \in {StatusAfterReturn(trk_outcome.stats)} :
          /\ run_files' = update_run_status(run_files, CurrentRun, status, "None", TRUE,
                                            trk_outcome.stats, now)
          /\ trk_ret' = [run_id |-> CurrentRun, status |-> status, filename |-> trk_filename,
                         stats |-> trk_outcome.stats, error |-> "None"]
    /\ trk_pc' = "returned"
    /\ UNCHANGED <<trk_incoming, trk_filename, trk_outcome, file_vars, merge_vars, norm_vars,
                   dir_vars, enc_vars, hdr_vars, evo_vars, upload_vars, race_vars>>

\* lines 62-71
TrkFailed ==
    /\ trk_pc = "raised"
    /\ run_files' = update_run_status(run_files, CurrentRun, "failed", trk_outcome.kind, FALSE,
                                      NoRun, now)
    /\ trk_ret' = [run_id |-> CurrentRun, status |-> "failed", filename |-> trk_filename,
                   stats |-> NoRun, error |-> trk_outcome.kind]
    /\ trk_pc' = "returned"
    /\ UNCHANGED <<trk_incoming, trk_filename, trk_outcome, file_vars, merge_vars, norm_vars,
                   dir_vars, enc_vars, hdr_vars, evo_vars, upload_vars, race_vars>>

TrackNext ==
    \/ TrkCreate
    \/ TrkRunning
    \/ TrkResolve
    \/ TrkIngest
    \/ TrkIngestRaises
    \/ TrkSuccess
    \/ TrkFailed

SpecTrack == TrackInit /\ [][TrackNext]_vars

-----------------------------------------------------------------------------
(* Two invocations of ingest_file on the same persisted files, step by step *)

\* the other invocation
Other(p) == 3 - p

\* the input files that get to step 5
LoadableFiles == {f \in InputFiles : ReachesStep5(f)}

\* the persisted files before the two invocations: none, or those an earlier
\* run left
PriorFiles ==
    {[working |-> Absent, master |-> Absent],
     [working |-> PriorRun.working, master |-> PriorRun.master]}

RaceInit ==
    /\ race_pc = [p \in Invocations |-> "start"]
    /\ race_file \in {fs \in [Invocations -> {f.name : f \in LoadableFiles}] : fs[1] # fs[2]}
    /\ race_mf = [p \in Invocations |-> Absent]
    /\ race_wf = [p \in Invocations |-> Absent]
    /\ race_res = [p \in Invocations |-> NoRun]
    /\ race_writer = NoWriter
    /\ race_overlap = FALSE
    /\ race_interleaved = FALSE
    /\ \E files \in PriorFiles : working_file = files.working /\ master_file = files.master
    /\ backups = {}
    /\ now = 0
    /\ runs = 0
    /\ run_record = NoRun
    /\ run_merge_stats = NoStats
    /\ log_count = 0
    /\ faulty_runs = 0
    /\ MergeIdle
    /\ NormIdle
    /\ DirIdle
    /\ EncIdle
    /\ HdrIdle
    /\ EvoIdle
    /\ UploadIdle
    /\ TrackIdle

\* what invocation p computes from the files as it read them
RaceResult(p, wf, bk) == ingest_file(ByName(race_file[p]), NoFaults, wf, race_mf[p], bk, now)

\* steps 1 to 6 of invocation p: the input is loaded and master_database.csv read
RaceReadMaster(p) ==
    /\ race_pc[p] = "start"
    /\ race_pc' = [race_pc EXCEPT ![p] = "read_master"]
    /\ race_mf' = [race_mf EXCEPT ![p] = master_file]
    /\ race_interleaved' = (race_interleaved \/ race_pc[Other(p)] \notin {"start", "returned"})
    /\ UNCHANGED <<race_file, race_wf, race_res, race_writer, race_overlap, file_vars,
                   merge_vars, norm_vars, dir_vars, enc_vars, hdr_vars, evo_vars, upload_vars,
                   track_vars>>

\* steps 7 and 8 of invocation p: cleaned_master.csv is backed up and read, and
\* the merge is done in memory
RaceReadCleaned(p) ==
    /\ race_pc[p] = "read_master"
    /\ \E r \in {RaceResult(p, working_file, backups)} :
          /\ race_res' = [race_res EXCEPT ![p] = r.stats]
          /\ backups' = r.backups
    /\ race_wf' = [race_wf EXCEPT ![p] = working_file]
    /\ race_pc' = [race_pc EXCEPT ![p] = "merged"]
    /\ race_overlap' = (race_overlap \/ race_pc[Other(p)] = "merged")
    /\ UNCHANGED <<race_file, race_mf, race_writer, race_interleaved, working_file, master_file,
                   now, runs, run_record, run_merge_stats, log_count, faulty_runs,
                   merge_vars, norm_vars, dir_vars, enc_vars, hdr_vars, evo_vars, upload_vars,
                   track_vars>>

\* step 9, first write of invocation p: master_database.csv
RaceWriteMaster(p) ==
    /\ race_pc[p] = "merged"
    /\ master_file' = RaceResult(p, race_wf[p], backups).master
    /\ race_writer' = [race_writer EXCEPT !.master = p]
    /\ race_pc' = [race_pc EXCEPT ![p] = "wrote_master"]
    /\ UNCHANGED <<race_file, race_mf, race_wf, race_res, race_overlap, race_interleaved,
                   working_file, backups, now, runs, run_record, run_merge_stats, log_count,
                   faulty_runs, merge_vars, norm_vars, dir_vars, enc_vars, hdr_vars, evo_vars,
                   upload_vars, track_vars>>

\* step 9, second write of invocation p, and step 10: cleaned_master.csv is
\* written and the Run Record returned
RaceWriteCleaned(p) ==
    /\ race_pc[p] = "wrote_master"
    /\ \E r \in {RaceResult(p, race_wf[p], backups)} :
          /\ working_file' = r.working
          /\ run_record' = r.stats
          /\ run_merge_stats' = r.merge_stats
          /\ log_count' = log_count + r.logged
    /\ runs' = runs + 1
    /\ race_writer' = [race_writer EXCEPT !.working = p]
    /\ race_pc' = [race_pc EXCEPT ![p] = "returned"]
    /\ UNCHANGED <<race_file, race_mf, race_wf, race_res, race_overlap, race_interleaved,
                   master_file, backups, now, faulty_runs, merge_vars, norm_vars, dir_vars,
                   enc_vars, hdr_vars, evo_vars, upload_vars, track_vars>>

RaceNext ==
    \E p \in Invocations :
        \/ RaceReadMaster(p)
        \/ RaceReadCleaned(p)
        \/ RaceWriteMaster(p)
        \/ RaceWriteCleaned(p)

SpecRace == RaceInit /\ [][RaceNext]_vars

-----------------------------------------------------------------------------
(* Properties of safe_upsert_merge, stated on the caller's state *)

Returned == merge_pc = "returned"

out_df == merge_out.df

BothPresent == ~NoneOrEmpty(existing_df) /\ ~NoneOrEmpty(incoming_df)

KeyOnBothSides ==
    /\ ~existing_df.isNone /\ PRIMARY_KEY \in ColSet(existing_df)
    /\ ~incoming_df.isNone /\ PRIMARY_KEY \in ColSet(incoming_df)

\* the key of a row; missing when the row has no key column
KeyOf(row) == IF PRIMARY_KEY \in DOMAIN row THEN row[PRIMARY_KEY] ELSE NA

\* the incoming row j carries a non-empty key that some existing row carries
Matched(j) ==
    /\ ~IsEmptyVal(KeyOf(incoming_df.rows[j]))
    /\ \E i \in DOMAIN existing_df.rows :
          /\ ~IsNA(KeyOf(existing_df.rows[i]))
          /\ Str(KeyOf(existing_df.rows[i])) = Str(KeyOf(incoming_df.rows[j]))

SameKey(i, j) == Str(KeyOf(existing_df.rows[i])) = Str(KeyOf(incoming_df.rows[j]))

AllMissing(row) == \A c \in DOMAIN row : IsNA(row[c])

\* row r is the row src put on the columns all: src's cells, missing elsewhere
RowIs(r, src, all) ==
    /\ DOMAIN r = all
    /\ \A c \in all : r[c] = IF c \in DOMAIN src THEN src[c] ELSE NA

Rank(S, j) == Cardinality({k \in S : k <= j})

Min(S) == CHOOSE m \in S : \A k \in S : m <= k

\* every existing row is still there: same position, populated cells kept
ExistingRowsKept ==
    /\ Len(out_df.rows) >= Len(existing_df.rows)
    /\ \A i \in DOMAIN existing_df.rows : \A c \in ColSet(existing_df) :
          ~IsEmptyVal(existing_df.rows[i][c]) =>
              c \in ColSet(out_df) /\ out_df.rows[i][c] = existing_df.rows[i][c]

\* C1 (no-overwrite): when the key column is on both sides, every populated
\* cell of every existing row has the same value in the merged result,
\* whatever the incoming rows carry.
C1_NoOverwrite ==
    (Returned /\ KeyOnBothSides) =>
        \A i \in DOMAIN existing_df.rows : \A c \in ColSet(existing_df) :
            ~IsEmptyVal(existing_df.rows[i][c]) =>
                /\ i \in DOMAIN out_df.rows
                /\ c \in ColSet(out_df)
                /\ out_df.rows[i][c] = existing_df.rows[i][c]

\* a matched incoming row offers another value for a populated cell, which is kept
C1_Witness ==
    /\ Returned /\ KeyOnBothSides
    /\ \E i \in DOMAIN existing_df.rows : \E j \in DOMAIN incoming_df.rows :
          /\ Matched(j) /\ SameKey(i, j)
          /\ Score \in ColSet(existing_df) /\ Score \in ColSet(incoming_df)
          /\ existing_df.rows[i][Score] = "x"
          /\ incoming_df.rows[j][Score] = "y"
          /\ out_df.rows[i][Score] = "x"

\* C2 as claimed (fill): for every matched incoming row and every non-key
\* column of it, an existing row of that key whose cell is empty (a column the
\* existing side lacks counts as empty) holds the incoming value after the
\* merge, when the incoming value is non-empty.
C2_FillAsClaimed ==
    (Returned /\ KeyOnBothSides) =>
        \A j \in DOMAIN incoming_df.rows : \A i \in DOMAIN existing_df.rows :
            \A c \in ColSet(incoming_df) \ {PRIMARY_KEY} :
                ( /\ Matched(j) /\ SameKey(i, j)
                  /\ ~IsEmptyVal(incoming_df.rows[j][c])
                  /\ (c \notin ColSet(existing_df) \/ IsEmptyVal(existing_df.rows[i][c])) )
                => /\ c \in ColSet(out_df)
                   /\ out_df.rows[i][c] = incoming_df.rows[j][c]

\* the matched incoming rows of existing row i that carry a value in column c
Offers(i, c) ==
    {j \in DOMAIN incoming_df.rows :
        Matched(j) /\ SameKey(i, j) /\ ~IsEmptyVal(incoming_df.rows[j][c])}

\* C2 amended (fill): for every existing row and every non-key column present
\* on both sides, if the existing cell is empty and some matched incoming row
\* of that key carries a non-empty value there, the merged cell is the value of
\* the first such incoming row; a column the existing side lacks is not filled
\* on existing rows.
C2_Fill ==
    (Returned /\ KeyOnBothSides) =>
        \A i \in DOMAIN existing_df.rows : \A c \in ColSet(incoming_df) \ {PRIMARY_KEY} :
            Offers(i, c) # {} =>
                IF c \in ColSet(existing_df)
                THEN IsEmptyVal(existing_df.rows[i][c]) =>
                        out_df.rows[i][c] = incoming_df.rows[Min(Offers(i, c))][c]
                ELSE c \in ColSet(out_df) => IsNA(out_df.rows[i][c])

\* a blank existing cell is filled from the first of two matched incoming rows
C2_Witness ==
    /\ Returned /\ KeyOnBothSides
    /\ \E i \in DOMAIN existing_df.rows :
          /\ Score \in ColSet(existing_df) /\ Score \in ColSet(incoming_df)
          /\ existing_df.rows[i][Score] = Blank
          /\ Cardinality(Offers(i, Score)) = 2
          /\ incoming_df.rows[1][Score] = "y" /\ incoming_df.rows[2][Score] = "x"
          /\ out_df.rows[i][Score] = "y"

\* the incoming rows no existing key matches: empty key, or key not present
Unmatched == {j \in DOMAIN incoming_df.rows : ~Matched(j)}

\* the rows Unmatched' of the incoming dataset are appended, in order, after the
\* existing rows, and rows_added counts them
AppendedAre(U) ==
    /\ Len(out_df.rows) = Len(existing_df.rows) + Cardinality(U)
    /\ \A j \in U :
          RowIs(out_df.rows[Len(existing_df.rows) + Rank(U, j)], incoming_df.rows[j],
                ColSet(out_df))
    /\ ColSet(incoming_df) \subseteq ColSet(out_df)
    /\ merge_out.stats.rows_added = Cardinality(U)

\* C3 as claimed (append): every incoming row whose key is empty or absent from
\* the existing keys is appended after the existing rows as a row equal to it,
\* rows_added is the number of these rows, and every existing row is kept.
C3_AppendAsClaimed ==
    (Returned /\ BothPresent /\ KeyOnBothSides /\ Unmatched # {}) =>
        AppendedAre(Unmatched) /\ ExistingRowsKept

\* C3 amended (append): every incoming row whose key is empty or absent from the
\* existing keys, and that is not entirely missing when the existing dataset is
\* non-empty, is appended after the existing rows as a row equal to it,
\* rows_added is the number of these rows, and every existing row is kept; with
\* a non-empty existing dataset an incoming row whose cells are all missing is
\* dropped before the merge.
C3_Append ==
    LET U == IF NoneOrEmpty(existing_df) THEN Unmatched
             ELSE {j \in Unmatched : ~AllMissing(incoming_df.rows[j])}
    IN (Returned /\ ~NoneOrEmpty(incoming_df) /\ U # {}) =>
           AppendedAre(U) /\ ExistingRowsKept

\* a row with a new key and a row with a blank key are appended beside a kept row
C3_Witness ==
    /\ Returned /\ BothPresent /\ KeyOnBothSides
    /\ Len(existing_df.rows) = 1 /\ Len(incoming_df.rows) = 2
    /\ KeyOf(existing_df.rows[1]) = "A"
    /\ KeyOf(incoming_df.rows[1]) = "B" /\ KeyOf(incoming_df.rows[2]) = Blank
    /\ Len(out_df.rows) = 3
    /\ KeyOf(out_df.rows[2]) = "B" /\ KeyOf(out_df.rows[3]) = Blank
    /\ merge_out.stats.rows_added = 2

KeyMissingSomewhere ==
    PRIMARY_KEY \notin ColSet(existing_df) \/ PRIMARY_KEY \notin ColSet(incoming_df)

\* the result is the existing rows followed by the incoming rows K, unchanged
ConcatenationOf(K) ==
    /\ ColSet(out_df) = ColSet(existing_df) \cup ColSet(incoming_df)
    /\ Len(out_df.rows) = Len(existing_df.rows) + Cardinality(K)
    /\ \A i \in DOMAIN existing_df.rows :
          RowIs(out_df.rows[i], existing_df.rows[i], ColSet(out_df))
    /\ \A j \in K :
          RowIs(out_df.rows[Len(existing_df.rows) + Rank(K, j)], incoming_df.rows[j],
                ColSet(out_df))
    /\ merge_out.stats.rows_added = Cardinality(K)

\* C4 as claimed (append-only fallback): with both datasets non-empty and the
\* key column missing from one of them, the result is the existing rows followed
\* by the incoming rows, len(existing) + len(incoming) rows in all, and
\* rows_added = len(incoming).
C4_FallbackAsClaimed ==
    (Returned /\ BothPresent /\ KeyMissingSomewhere) =>
        ConcatenationOf(DOMAIN incoming_df.rows)

\* C4 amended (append-only fallback): with both datasets non-empty and the key
\* column missing from one of them, the result is the existing rows followed by
\* the incoming rows that are not entirely missing, unchanged; the row count is
\* len(existing) plus the number of those rows, which is also rows_added.
C4_Fallback ==
    (Returned /\ BothPresent /\ KeyMissingSomewhere) =>
        ConcatenationOf({j \in DOMAIN incoming_df.rows : ~AllMissing(incoming_df.rows[j])})

\* the existing side lacks the key column and two incoming rows are appended
C4_Witness ==
    /\ Returned /\ BothPresent
    /\ PRIMARY_KEY \notin ColSet(existing_df) /\ PRIMARY_KEY \in ColSet(incoming_df)
    /\ Len(existing_df.rows) = 2 /\ Len(incoming_df.rows) = 2
    /\ Len(out_df.rows) = 4
    /\ merge_out.stats.rows_added = 2

-----------------------------------------------------------------------------
(* Properties of normalize_columns *)

Distinct(names) == \A i, j \in DOMAIN names : i # j => names[i] # names[j]

WellFormed(name) ==
    /\ name # <<>>
    /\ name = LowerStr(name)
    /\ \A k \in DOMAIN name : name[k] \notin Whitespace
    /\ ~IsDigit(name[1])

\* C8: whatever the raw headers, the names normalize_columns produces are
\* lowercase, free of whitespace, do not start with a digit and are pairwise
\* distinct.
C8_NormalizedNames ==
    norm_pc \in {"once", "twice"} =>
        /\ \A i \in DOMAIN norm_once : WellFormed(norm_once[i])
        /\ Distinct(norm_once)

\* the part of C8 the code keeps: every produced name is well formed
C8_WellFormedOnly ==
    norm_pc \in {"once", "twice"} => \A i \in DOMAIN norm_once : WellFormed(norm_once[i])

\* C9 (idempotence): normalizing the names normalize_columns produced returns
\* the same names in the same order.
C9_Idempotent == norm_pc = "twice" => norm_twice = norm_once

\* what holds in the code: names that came out distinct are a fixed point
C9_IdempotentWhenDistinct ==
    (norm_pc = "twice" /\ Distinct(norm_once)) => norm_twice = norm_once

-----------------------------------------------------------------------------
(* Properties of ingest_file, stated on the persisted files *)

\* the text v of a cell of a persisted file is not blank
Populated(v) == ~IsEmptyVal(v)

\* every row of the file before is, at the same position of the file after, a
\* row that still carries each of its populated cells
RowsKept(before, after) ==
    /\ Len(after.rows) >= Len(before.rows)
    /\ \A i \in DOMAIN before.rows : \A c \in DOMAIN before.rows[i] :
          Populated(before.rows[i][c]) =>
              /\ c \in DOMAIN after.rows[i]
              /\ after.rows[i][c] = before.rows[i][c]

\* C5: schema monotonicity of the Working Dataset.  In every step of every
\* sequence of ingest_file invocations, failed reads included, the column set
\* of cleaned_master.csv after the step contains its column set before it.
C5_SchemaMonotone ==
    [][working_file.exists =>
          /\ working_file'.exists
          /\ ColSet(working_file) \subseteq ColSet(working_file')]_vars

\* C6: after every ingest_file invocation, starting from no persisted files,
\* the column set of master_database.csv contains the column set of
\* cleaned_master.csv.
C6_MasterSuperset ==
    working_file.exists =>
        /\ master_file.exists
        /\ ColSet(working_file) \subseteq ColSet(master_file)

\* C7: no row loss.  In every step, each row of cleaned_master.csv and of
\* master_database.csv before an invocation is still there after it: the row
\* count does not decrease and the populated cells of the row are kept.
C7_NoRowLoss ==
    [][/\ working_file.exists => working_file'.exists /\ RowsKept(working_file, working_file')
       /\ master_file.exists => master_file'.exists /\ RowsKept(master_file, master_file')]_vars

\* C10: update accounting.  The Run Record of a successful invocation carries
\* as rows_updated the number of matched incoming rows that filled a cell, and
\* as rows_unchanged the number of matched incoming rows that filled none: the
\* counts the merge into the Working Dataset made in lines 593-596.
C10_UpdateAccounting ==
    run_record.status = "success" =>
        /\ run_record.rows_updated = run_merge_stats.rows_updated
        /\ run_record.rows_unchanged = run_merge_stats.rows_unchanged

\* the step is an ingest_file invocation on the file the previous invocation
\* ingested with success, and no invocation so far met a file-system failure
ReingestStep ==
    /\ runs' = runs + 1
    /\ faulty_runs' = 0
    /\ run_record.status = "success"
    /\ run_record'.status = "success"
    /\ run_record'.source = run_record.source

\* C11: re-ingestion idempotence.  Ingesting a file and then the same unchanged
\* file again gives rows_added = 0 in the second Run Record and leaves
\* cleaned_master.csv with the rows it had after the first run.
C11_ReingestIdempotent ==
    [][ReingestStep =>
          /\ run_record'.rows_added = 0
          /\ working_file'.rows = working_file.rows]_vars

\* the step is an ingest_file invocation
IngestStep == runs' = runs + 1

\* C12: backup before write.  An invocation that writes cleaned_master.csv
\* over an existing file has put into the backups directory, under the
\* timestamp of the run, a snapshot equal to the file as it was before; an
\* invocation that finds no cleaned_master.csv takes no snapshot, and when
\* nothing else fails it ends with success.
C12_BackupBeforeWrite ==
    [][IngestStep =>
          /\ (working_file.exists /\ run_record'.status = "success") =>
                 [ts |-> now, file |-> working_file] \in backups'
          /\ ~working_file.exists =>
                 /\ backups' = backups
                 /\ (faulty_runs' = faulty_runs /\ run_record'.rows_loaded > 0) =>
                        run_record'.status = "success"]_vars

\* C13: snapshots accumulate immutably.  An invocation that gets to the backup
\* step with cleaned_master.csv present, the file system not failing, adds
\* exactly one snapshot to the backups directory and leaves every snapshot of
\* the earlier runs as it was, also when the runs fall in one clock second.
C13_BackupsAccumulate ==
    [][(IngestStep /\ working_file.exists /\ faulty_runs' = 0
           /\ run_record'.rows_loaded > 0) =>
          /\ backups \subseteq backups'
          /\ Cardinality(backups') = Cardinality(backups) + 1]_vars

\* C14: exception safety of ingest_file.  Every invocation calls log_ingestion
\* exactly once; an invocation in which a stage fails (a read of a persisted
\* file, the backup, a write) returns a Run Record with status "failed"; and a
\* failed Run Record carries an error and leaves cleaned_master.csv as it was.
C14_ExceptionSafety ==
    [][IngestStep =>
          /\ log_count' = log_count + 1
          /\ faulty_runs' > faulty_runs => run_record'.status = "failed"
          /\ run_record'.status = "failed" =>
                 /\ run_record'.error # "None"
                 /\ working_file' = working_file]_vars

-----------------------------------------------------------------------------
(* Properties of ingest_directory *)

NotSucceeded(c) == c.outcome # "success"

FailedCalls == SelectSeq(calls, NotSucceeded)

\* C15 (batch failure isolation): the calls ingest_directory makes are the
\* discovered files, each once and in the order of the list; every call that
\* returned a failed record or raised is recorded, in order, in the errors of
\* the summary; and the summary is returned only after the last file of the
\* list was processed, whatever happened to the files before it.  (A directory
\* that is not there has no files and no calls.)
C15_FailureIsolation ==
    /\ Len(calls) <= Len(supported_files)
    /\ \A i \in 1..Len(calls) : calls[i].file = supported_files[i].file
    /\ dir_exists =>
          /\ Len(aggregate.errors) = Len(FailedCalls)
          /\ \A i \in 1..Len(FailedCalls) : aggregate.errors[i].name = FailedCalls[i].file.name
          /\ dir_pc = "returned" => Len(calls) = Len(supported_files)

C15_Witness ==
    /\ dir_pc = "returned"
    /\ Len(calls) = 3
    /\ calls[1].outcome = "raised"
    /\ calls[2].outcome = "failed"
    /\ calls[3].outcome = "success"

\* C16 (own output is not input): no file handed to ingest_file by
\* ingest_directory is named cleaned_master.csv or master_database.csv, and
\* every file handed to it has one of the extensions .xlsx, .xls, .csv, .tsv
\* and is a regular file of the listing.
C16_OutputsExcluded ==
    \A i \in 1..Len(calls) :
        /\ calls[i].file.name \notin {"cleaned_master.csv", "master_database.csv"}
        /\ calls[i].file.ext \in {".xlsx", ".xls", ".csv", ".tsv"}
        /\ DirEntry(calls[i].file, TRUE) \in all_files

C16_Witness ==
    /\ dir_pc = "returned"
    /\ {"cleaned_master.csv", "notes.txt", "archive.csv", "first.csv"} \subseteq Names(all_files)
    /\ Len(calls) = 1
    /\ calls[1].file.name = "first.csv"
    /\ calls[1].outcome = "success"
    /\ working_file.exists

IsSuccess(rec) == rec.status = "success"

SuccessfulRecords == SelectSeq(aggregate.file_results, IsSuccess)

RECURSIVE SumRowsAdded(_)
SumRowsAdded(recs) ==
    IF recs = <<>> THEN 0 ELSE Head(recs).rows_added + SumRowsAdded(Tail(recs))

RECURSIVE SumRowsUpdated(_)
SumRowsUpdated(recs) ==
    IF recs = <<>> THEN 0 ELSE Head(recs).rows_updated + SumRowsUpdated(Tail(recs))

ColumnsAddedBy(recs) == UNION {Range(recs[i].columns_added) : i \in 1..Len(recs)}

SummaryConsistent ==
    /\ aggregate.total_files = aggregate.successful + aggregate.failed
    /\ Len(aggregate.errors) = aggregate.failed
    /\ aggregate.total_rows_added = SumRowsAdded(SuccessfulRecords)
    /\ aggregate.total_rows_updated = SumRowsUpdated(SuccessfulRecords)
    /\ Distinct(aggregate.total_columns_added)
    /\ Range(aggregate.total_columns_added) = ColumnsAddedBy(SuccessfulRecords)

\* C17 as claimed (batch summary consistency): in every summary
\* ingest_directory returns, total_files = successful + failed, errors has
\* as many entries as failed, the row totals are the sums over the successful
\* Run Records and total_columns_added is the duplicate-free union of their
\* columns_added.
C17_SummaryAsClaimed == dir_pc = "returned" => SummaryConsistent

\* C17 (batch summary consistency): the summary of a directory that exists
\* is consistent as claimed; the summary of a directory that is not there
\* has every count at zero, no Run Record, and one entry in errors although
\* failed is 0.
C17_SummaryConsistency ==
    dir_pc = "returned" =>
        IF dir_exists
        THEN SummaryConsistent
        ELSE /\ aggregate.total_files = 0
             /\ aggregate.successful = 0
             /\ aggregate.failed = 0
             /\ aggregate.total_rows_added = 0
             /\ aggregate.total_rows_updated = 0
             /\ aggregate.total_columns_added = <<>>
             /\ aggregate.file_results = <<>>
             /\ Len(aggregate.errors) = 1

C17_Witness ==
    /\ dir_pc = "returned"
    /\ dir_exists
    /\ aggregate.successful = 2
    /\ aggregate.failed = 1
    /\ aggregate.total_rows_added > 0
    /\ aggregate.total_rows_updated > 0
    /\ Len(aggregate.total_columns_added) > 3

-----------------------------------------------------------------------------
(* Properties of read_with_encoding_cascade *)

CascadeOrder == <<"utf-8", "utf-8-sig", "cp1252", "latin1">>

\* the attempts that failed so far were made in the order of the cascade
TriedInOrder ==
    /\ Len(enc_errors) <= 4
    /\ \A i \in 1..Len(enc_errors) : enc_errors[i].encoding = CascadeOrder[i]

\* a PermissionError ends the call in the attempt that met it
PermissionIsFatal ==
    enc_out.kind = "PermissionError" =>
        /\ enc_pc = "raised"
        /\ enc_i = Len(enc_errors) + 1
        /\ enc_i <= 4

\* the aggregated failure is raised after four failed attempts, and only then
AggregatedWhenAllFailed ==
    /\ enc_out.kind = "UnicodeDecodeError" => Len(enc_errors) = 4
    /\ (Len(enc_errors) = 4 /\ enc_pc # "called") => enc_out.kind = "UnicodeDecodeError"

FirstThatDecodes(bytes) ==
    CascadeOrder[CHOOSE i \in 1..4 : /\ DecodeOk(bytes, CascadeOrder[i])
                                     /\ \A j \in 1..(i - 1) : ~DecodeOk(bytes, CascadeOrder[j])]

\* C18 as claimed (encoding cascade ordering): the encodings are tried in the
\* order utf-8, utf-8-sig, cp1252, latin1; every attempt that was followed by
\* another one ended in a decode error; the text returned is the file decoded
\* with the first encoding of the cascade that decodes it; a permission error
\* is propagated from the attempt that met it; the aggregated failure is
\* raised only after all four encodings failed.
C18_CascadeAsClaimed ==
    /\ TriedInOrder
    /\ \A i \in 1..Len(enc_errors) : enc_errors[i].kind = "decode"
    /\ enc_out.kind = "returned" =>
          /\ enc_out.encoding = FirstThatDecodes(enc_file.bytes)
          /\ enc_out.text = DecodeText(enc_file.bytes, enc_out.encoding)
    /\ PermissionIsFatal
    /\ AggregatedWhenAllFailed

\* C18 (encoding cascade ordering): the encodings are tried in the order
\* utf-8, utf-8-sig, cp1252, latin1; an attempt is followed by another one
\* exactly when it raised something other than a permission error, a decode
\* error or not; the text returned is the file decoded with the first
\* encoding whose attempt raised nothing, every earlier attempt having
\* failed; a permission error is propagated from the attempt that met it;
\* the aggregated failure is raised exactly when all four attempts failed,
\* and an attempt that only ever meets decode errors never gets there.
C18_CascadeOrdering ==
    /\ TriedInOrder
    /\ \A i \in 1..Len(enc_errors) :
          enc_errors[i].kind = "decode" => ~DecodeOk(enc_file.bytes, CascadeOrder[i])
    /\ enc_out.kind = "returned" =>
          /\ Len(enc_errors) < 4
          /\ enc_out.encoding = CascadeOrder[Len(enc_errors) + 1]
          /\ DecodeOk(enc_file.bytes, enc_out.encoding)
          /\ enc_out.text = DecodeText(enc_file.bytes, enc_out.encoding)
    /\ PermissionIsFatal
    /\ AggregatedWhenAllFailed
    /\ enc_out.kind = "UnicodeDecodeError" => \E i \in 1..4 : enc_errors[i].kind = "other"

C18_Witness ==
    /\ enc_out.kind = "returned"
    /\ enc_out.encoding = "cp1252"
    /\ Len(enc_errors) = 2
    /\ enc_errors[1].kind = "decode"
    /\ enc_errors[2].kind = "decode"
    /\ enc_out.text = <<"U+0061", "U+00E9">>

-----------------------------------------------------------------------------
(* Properties of _detect_header_row *)

HasKeyword(cell) == cell # NAHeader /\ \E keyword \in HEADER_KEYWORDS : Contains(LowerStr(cell), keyword)

NonEmptyCell(cell) == cell # NAHeader /\ cell # <<>>

\* a number as the detector reads one: digits, with dots and dashes among them
NumericCell(cell) ==
    /\ \A i \in DOMAIN cell : IsDigit(cell[i]) \/ cell[i] \in {".", "-"}
    /\ \E i \in DOMAIN cell : IsDigit(cell[i])

CountOf(row, P(_)) == Cardinality({i \in DOMAIN row : P(row[i])})

TextCell(cell) == NonEmptyCell(cell) /\ ~NumericCell(cell)

KeywordRule(row) == CountOf(row, HasKeyword) >= 3

SecondaryRule(row) ==
    /\ 10 * CountOf(row, TextCell) > 7 * Len(row)
    /\ 2 * CountOf(row, NonEmptyCell) > Len(row)

Scanned == 0..(Min2(hdr_max, Len(hdr_df)) - 1)

Satisfying == {idx \in Scanned : KeywordRule(hdr_df[idx + 1]) \/ SecondaryRule(hdr_df[idx + 1])}

\* C19 (header row detection): the index returned is the first of the rows
\* 0 .. min(max_rows_to_check, n) - 1 that has at least 3 keyword cells or
\* satisfies the secondary rule (more than 70% of the cells non-numeric text
\* and more than 50% non-empty); it is 0 when no scanned row satisfies either
\* rule; and it is an index of the table.
C19_HeaderRow ==
    hdr_pc = "returned" =>
        /\ Satisfying # {} => hdr_out \in Satisfying /\ \A idx \in Satisfying : hdr_out <= idx
        /\ Satisfying = {} => hdr_out = 0
        /\ hdr_out \in 0..(Len(hdr_df) - 1)

-----------------------------------------------------------------------------
(* Properties of safe_upsert_merge on empty inputs *)

\* the dataset is None or has no rows or no columns
Vacant(df) == df.isNone \/ Len(df.rows) = 0 \/ Len(df.cols) = 0

\* the same columns in the same order and the same rows in the same order
SameData(a, b) == a.cols = b.cols /\ a.rows = b.rows

NothingCounted == merge_out.stats = [rows_added |-> 0, rows_updated |-> 0, rows_unchanged |-> 0]

AllCountedAdded ==
    merge_out.stats = [rows_added |-> Len(incoming_df.rows), rows_updated |-> 0,
                       rows_unchanged |-> 0]

\* C20 as claimed (empty inputs): with an incoming dataset that is empty or
\* None the result is the existing dataset, columns and rows, and nothing is
\* counted; with an existing dataset that is empty or None the result is the
\* incoming dataset, columns and rows, and every incoming row is counted as
\* added.
C20_EmptyInputsAsClaimed ==
    Returned =>
        /\ Vacant(incoming_df) => SameData(out_df, existing_df) /\ NothingCounted
        /\ Vacant(existing_df) => SameData(out_df, incoming_df) /\ AllCountedAdded

\* C20 (empty inputs): with an incoming dataset that is empty or None and an
\* existing dataset that is not, the result is the existing dataset and
\* nothing is counted; with an existing dataset that is empty or None and an
\* incoming dataset that is not, the result is the incoming dataset, its
\* entirely missing rows included, and every incoming row is counted as
\* added; when both are empty or None the result is a frame without rows and
\* without columns, whatever columns the two had, and nothing is counted.
C20_EmptyInputs ==
    Returned =>
        /\ (Vacant(incoming_df) /\ ~Vacant(existing_df)) =>
               /\ SameData(out_df, existing_df)
               /\ NothingCounted
        /\ (Vacant(existing_df) /\ ~Vacant(incoming_df)) =>
               /\ SameData(out_df, incoming_df)
               /\ AllCountedAdded
        /\ (Vacant(existing_df) /\ Vacant(incoming_df)) =>
               /\ ~out_df.isNone
               /\ out_df.cols = <<>>
               /\ out_df.rows = <<>>
               /\ NothingCounted

\* an existing dataset with columns and no rows takes two incoming rows, one
\* of them entirely missing
C20_Witness ==
    /\ Returned
    /\ ~existing_df.isNone
    /\ existing_df.cols = <<PRIMARY_KEY, Score>>
    /\ existing_df.rows = <<>>
    /\ Len(incoming_df.rows) = 2
    /\ AllMissing(incoming_df.rows[1])
    /\ out_df.rows = incoming_df.rows
    /\ merge_out.stats.rows_added = 2

-----------------------------------------------------------------------------
(* Properties of evolve_schema *)

ColumnsOf(df) == IF df.isNone THEN {} ELSE Range(df.cols)

RowsOf(df) == IF df.isNone THEN <<>> ELSE df.rows

\* the claim's statement about one call that has returned
EvolvedAsClaimed ==
    /\ ColumnsOf(evo_out.df) = ColumnsOf(evo_master) \cup ColumnsOf(evo_incoming)
    /\ Len(RowsOf(evo_out.df)) = Len(RowsOf(evo_master))
    /\ \A i \in DOMAIN RowsOf(evo_master) :
          \A c \in ColumnsOf(evo_out.df) :
              evo_out.df.rows[i][c] = IF c \in ColumnsOf(evo_master)
                                      THEN evo_master.rows[i][c] ELSE NA
    /\ evo_out.new_cols = SortedSeq(ColumnsOf(evo_incoming) \ ColumnsOf(evo_master))
    /\ SubSeq(evo_out.df.cols, 1, Len(evo_master.cols)) = evo_master.cols

\* C21 as claimed (schema evolution): the returned frame has exactly the columns of the
\* master and of the incoming dataset; it has the rows of the master, each
\* with its values and a missing value in every added column; the returned
\* list is the sorted sequence of the incoming columns the master did not
\* have; the columns of the master are all there, in their order.
C21_EvolveAsClaimed == evo_pc = "returned" => EvolvedAsClaimed

\* C21 (schema evolution): for a master and an incoming dataset that both
\* have rows and columns the call returns what is claimed; for a master that
\* is None or empty and an incoming dataset that is not, it returns the master
\* as it is (an empty frame for None), no column added, and as list all the
\* incoming columns in the incoming order; for an incoming dataset that is
\* None or empty it returns the master as it is and an empty list, and when
\* the master is None or empty too, an empty frame without columns.
C21_EvolveSchema ==
    evo_pc = "returned" =>
        /\ (~Vacant(evo_master) /\ ~Vacant(evo_incoming)) => EvolvedAsClaimed
        /\ (Vacant(evo_master) /\ ~Vacant(evo_incoming)) =>
               /\ SameData(evo_out.df, evo_master)
               /\ evo_out.new_cols = evo_incoming.cols
        /\ (~Vacant(evo_master) /\ Vacant(evo_incoming)) =>
               /\ SameData(evo_out.df, evo_master)
               /\ evo_out.new_cols = <<>>
        /\ (Vacant(evo_master) /\ Vacant(evo_incoming)) =>
               /\ SameData(evo_out.df, EmptyDF)
               /\ evo_out.new_cols = <<>>
        /\ ~evo_out.df.isNone

\* the case of the test: two rows, two added columns, returned sorted
C21_Witness ==
    /\ evo_pc = "returned"
    /\ evo_master.cols = <<PRIMARY_KEY, Score>>
    /\ Len(evo_master.rows) = 2
    /\ evo_incoming.cols = <<PRIMARY_KEY, Score, NewCol, Extra>>
    /\ Len(evo_incoming.rows) = 1
    /\ evo_out.new_cols = <<Extra, NewCol>>
    /\ evo_out.df.cols = <<PRIMARY_KEY, Score, Extra, NewCol>>
    /\ evo_out.df.rows[1][PRIMARY_KEY] = "A"
    /\ evo_out.df.rows[1][NewCol] = NA

-----------------------------------------------------------------------------
(* Properties of ingest_file: the two datasets side by side *)

SuccessfulRun == runs' = runs + 1 /\ run_record'.status = "success"

\* C22 (row parity): a successful run that finds neither file leaves both
\* with as many rows as it loaded, and after every successful run the
\* Working Dataset and the Master Archive have the same number of rows.
C22_RowParity ==
    [][SuccessfulRun =>
          /\ Len(working_file'.rows) = Len(master_file'.rows)
          /\ (~working_file.exists /\ ~master_file.exists) =>
                 Len(working_file'.rows) = run_record'.rows_loaded]_vars

-----------------------------------------------------------------------------
(* Properties of safe_upsert_merge: several existing rows of one key *)

\* the existing rows that carry the key of incoming row j
Sharing(j) == {i \in DOMAIN existing_df.rows : ~IsNA(KeyOf(existing_df.rows[i])) /\ SameKey(i, j)}

SharedColumns == (ColSet(existing_df) \cap ColSet(incoming_df)) \ {PRIMARY_KEY}

\* incoming row j fills a cell when its turn comes: the cell is empty in the
\* existing dataset and no earlier incoming row of the key carries a value
FillsSomething(j) ==
    \E i \in Sharing(j) : \E c \in SharedColumns :
        /\ IsEmptyVal(existing_df.rows[i][c])
        /\ ~IsEmptyVal(incoming_df.rows[j][c])
        /\ Min(Offers(i, c)) = j

MatchedRows == {j \in DOMAIN incoming_df.rows : Matched(j)}

\* C23 (multi-row match): for a matched incoming row, every existing row
\* that shares its key keeps its populated cells and has every empty cell,
\* in a column the incoming row carries a value for, filled (with the value
\* of the first incoming row of that key that carries one); rows_updated
\* counts each matched incoming row once if it filled a cell in any of these
\* rows, and rows_unchanged counts the other matched incoming rows.
C23_MultiRowMatch ==
    (Returned /\ BothPresent /\ KeyOnBothSides) =>
        /\ \A j \in MatchedRows : \A i \in Sharing(j) : \A c \in SharedColumns :
              /\ ~IsEmptyVal(existing_df.rows[i][c]) =>
                     out_df.rows[i][c] = existing_df.rows[i][c]
              /\ (IsEmptyVal(existing_df.rows[i][c]) /\ ~IsEmptyVal(incoming_df.rows[j][c])) =>
                     /\ ~IsEmptyVal(out_df.rows[i][c])
                     /\ out_df.rows[i][c] = incoming_df.rows[Min(Offers(i, c))][c]
        /\ merge_out.stats.rows_updated = Cardinality({j \in MatchedRows : FillsSomething(j)})
        /\ merge_out.stats.rows_unchanged = Cardinality({j \in MatchedRows : ~FillsSomething(j)})

\* two existing rows with the key A, one cell missing and one blank, are both
\* filled from one incoming row, which is counted once
C23_Witness ==
    /\ Returned /\ BothPresent /\ KeyOnBothSides
    /\ Len(existing_df.rows) = 2 /\ Len(incoming_df.rows) = 1
    /\ Sharing(1) = {1, 2}
    /\ Score \in SharedColumns
    /\ existing_df.rows[1][Score] = NA /\ existing_df.rows[2][Score] = Blank
    /\ incoming_df.rows[1][Score] = "y"
    /\ out_df.rows[1][Score] = "y" /\ out_df.rows[2][Score] = "y"
    /\ merge_out.stats.rows_updated = 1

-----------------------------------------------------------------------------
(* Properties of safe_upsert_merge: rows appended on other columns *)

\* the incoming rows the call appends: not entirely missing, and without a
\* match when the key column is on both sides
Appended ==
    {j \in DOMAIN incoming_df.rows :
        /\ ~AllMissing(incoming_df.rows[j])
        /\ KeyMissingSomewhere \/ ~Matched(j)}

AppendsOnOtherColumns ==
    /\ Returned /\ BothPresent
    /\ Len(out_df.rows) > Len(existing_df.rows)
    /\ ColSet(incoming_df) # ColSet(existing_df)

-----------------------------------------------------------------------------
(* Properties of ingest_file: the Run Record and the files *)

\* C27 (status/error consistency): the Run Record of every invocation has
\* status success or failed; it has status success exactly when its error
\* is None; and when it has status success both files are there as this run
\* wrote them: the Working Dataset with the rows and columns the record
\* reports, the Master Archive with at least those columns.
C27_StatusErrorConsistency ==
    [][IngestStep =>
          /\ run_record'.status \in {"success", "failed"}
          /\ run_record'.status = "success" <=> run_record'.error = "None"
          /\ run_record'.status = "success" =>
                 /\ working_file'.exists
                 /\ master_file'.exists
                 /\ Len(working_file'.rows) = run_record'.total_rows
                 /\ Len(working_file'.cols) = run_record'.total_columns
                 /\ Range(working_file'.cols) \subseteq Range(master_file'.cols)]_vars

\* a successful run after a run that failed while writing
C27_Witness ==
    /\ runs = 2
    /\ faulty_runs = 1
    /\ run_record.status = "success"
    /\ run_record.error = "None"
    /\ run_record.total_rows = 3
    /\ Len(working_file.rows) = 3
    /\ master_file.exists

\* C28 (failure atomicity): after an invocation whose Run Record has status
\* failed, the Working Dataset file and the Master Archive file are as they
\* were before the invocation.
C28_FailureAtomicity ==
    [][(IngestStep /\ run_record'.status = "failed") =>
          /\ working_file' = working_file
          /\ master_file' = master_file]_vars

-----------------------------------------------------------------------------
(* Properties of safe_upsert_merge: uniqueness of the key *)

\* the rows of a dataset whose key is non-empty
Keyed(df) == {i \in DOMAIN df.rows : ~IsEmptyVal(KeyOf(df.rows[i]))}

\* no two rows of a dataset carry the same non-empty key
KeysDistinct(df) ==
    \A i, j \in Keyed(df) : i # j => KeyOf(df.rows[i]) # KeyOf(df.rows[j])

\* C29 (primary-key uniqueness): when the key column is on both sides and the
\* non-empty keys of the existing dataset are pairwise distinct, the non-empty
\* keys of the result are pairwise distinct, whatever the incoming dataset.
C29_KeyUniqueness ==
    (Returned /\ KeyOnBothSides /\ KeysDistinct(existing_df)) =>
        KeysDistinct(out_df)

-----------------------------------------------------------------------------
(* Properties of save_upload *)

SaveStep == uploads' = uploads + 1

\* the content of the file called name
ContentOf(dir, name) == dir[CHOOSE i \in DOMAIN dir : dir[i].name = name].content

\* C26 (uploads never overwrite): every call of save_upload writes its content
\* to a path that did not exist before the call, returns the name of that path,
\* and leaves the content of every file saved before unchanged.
C26_NoOverwrite ==
    [][SaveStep =>
          /\ ~Exists(incoming_dir, upload_ret'.dest)
          /\ Exists(incoming_dir', upload_ret'.dest)
          /\ ContentOf(incoming_dir', upload_ret'.dest) = upload_arg'.content
          /\ upload_ret'.safe_name = upload_ret'.dest
          /\ FileNames(incoming_dir') = FileNames(incoming_dir) \cup {upload_ret'.dest}
          /\ \A name \in FileNames(incoming_dir) :
                ContentOf(incoming_dir', name) = ContentOf(incoming_dir, name)]_vars

\* the third upload of one file name, with a file of the first renamed name
\* already in the directory: the renaming went two rounds
C26_Witness ==
    /\ uploads = 3
    /\ Len(incoming_dir) = 4
    /\ incoming_dir[1].name = <<"d", "_", "1", ".", "c", "s", "v">>
    /\ incoming_dir[1].content = "old"
    /\ incoming_dir[2].name = <<"d", ".", "c", "s", "v">>
    /\ incoming_dir[2].content = "first"
    /\ upload_arg.filename = <<"d", ".", "c", "s", "v">>
    /\ upload_arg.content = "second"
    /\ upload_ret.dest = <<"d", "_", "1", "_", "2", "_", "3", ".", "c", "s", "v">>

-----------------------------------------------------------------------------
(* Properties of run_ingestion *)

Terminal == {"success", "failed"}

\* the status of a tracked run only moves pending -> running -> terminal
StatusMoves ==
    \A id \in DOMAIN run_files :
        \/ run_files'[id].status = run_files[id].status
        \/ /\ run_files[id].status = "pending" /\ run_files'[id].status = "running"
        \/ /\ run_files[id].status = "running" /\ run_files'[id].status \in Terminal

\* run_ingestion returns in this step
TrackReturns == trk_pc # "returned" /\ trk_pc' = "returned"

\* C30 (tracked outcome matches the ingestion outcome): a run created by
\* run_ingestion starts pending, moves pending -> running -> one terminal
\* status with completed_at set; when run_ingestion returns, the tracked status
\* and the status of the returned dict are success only if the Run Record of
\* ingest_file has status success, and failed whenever ingest_file reported
\* failed or raised.
C30_TrackedOutcome ==
    [][/\ StatusMoves
       /\ Len(run_files') > Len(run_files) => run_files'[Len(run_files')].status = "pending"
       /\ TrackReturns =>
             LET run == run_files'[Len(run_files')]
             IN /\ run.status \in Terminal
                /\ run.completed_at # NoTime
                /\ trk_ret'.status = run.status
                /\ run.status = "success" =>
                      (trk_outcome'.kind = "returned" /\ trk_outcome'.stats.status = "success")
                /\ (trk_outcome'.kind = "raised" \/ trk_outcome'.stats.status = "failed") =>
                      run.status = "failed"]_vars

-----------------------------------------------------------------------------
(* Properties of two invocations of ingest_file on the same files *)

BothReturned == \A p \in Invocations : race_pc[p] = "returned"

\* the frame ingest_file merges for the input file called name
InputFrame(name) ==
    LET tbl == normalize_columns(ByName(name).table) IN FrameOf(tbl.header, tbl.rows)

\* the non-empty keys of the rows of an input file
InputKeys(name) ==
    LET df == InputFrame(name)
    IN {KeyOf(df.rows[i]) : i \in Keyed(df)}

\* the non-empty keys of the rows of a persisted file
FileKeys(file) ==
    {file.rows[i][PRIMARY_KEY] :
        i \in {j \in DOMAIN file.rows : /\ PRIMARY_KEY \in DOMAIN file.rows[j]
                                        /\ Populated(file.rows[j][PRIMARY_KEY])}}

\* what invocation p alone makes of the files it read
Alone(p) == RaceResult(p, race_wf[p], {})

\* the keys only invocation p contributes, given what invocation q read
OnlyFrom(p, q) ==
    InputKeys(race_file[p]) \ (InputKeys(race_file[q]) \cup FileKeys(race_wf[q])
                                   \cup FileKeys(race_mf[q]))

NoFailureReported == \A p \in Invocations : race_res[p].status = "success"

\* both files are what the invocation that wrote last made of them, and hold
\* no key that only the other invocation contributed
LastWriterAlone ==
    LET w == race_writer.working
    IN /\ working_file = Alone(w).working
       /\ master_file = Alone(w).master
       /\ OnlyFrom(Other(w), w) \cap (FileKeys(working_file) \cup FileKeys(master_file)) = {}

\* the keys of both inputs are in both files
BothInputsPresent ==
    \A p \in Invocations :
        /\ InputKeys(race_file[p]) \subseteq FileKeys(working_file)
        /\ InputKeys(race_file[p]) \subseteq FileKeys(master_file)

\* C25 (unserialized runs race): when two invocations on different inputs have
\* both read the Working Dataset and the Master Archive before either wrote,
\* the persisted files are the result of the last writer alone, the rows only
\* the other invocation contributed are absent, and neither invocation reports
\* a failure; when one invocation runs after the other, the rows of both inputs
\* are present.
C25_UnserializedRace ==
    BothReturned =>
        /\ race_overlap => (LastWriterAlone /\ NoFailureReported)
        /\ ~race_interleaved => BothInputsPresent
====
